---- MODULE Spec2Model ----
(***************************************************************************)
(* Model of the turn-processing pipeline of the therapy-patient simulator: *)
(* normalize -> retrieve -> reason (stub or LLM) -> guard -> generation -> *)
(* telemetry append -> trajectory update -> response.                      *)
(*                                                                         *)
(* Encodings used throughout:                                              *)
(*  - a Python dict is a function whose domain is the set of its keys      *)
(*    (a record); a missing key is a key outside the domain;               *)
(*  - None is the value PyNone;                                            *)
(*  - a JSON value whose Python type is not fixed by the code is tagged    *)
(*    with its type: [t |-> "num", v |-> 5], [t |-> "str", v |-> "x"],     *)
(*    [t |-> "list", v |-> <<...>>], [t |-> "null"];                       *)
(*  - trust, trust_ge, min_trust and the deltas are fixed-point numbers in *)
(*    hundredths (0.2 is 20, 1.0 is 100);                                  *)
(*  - an utterance is a sequence of tokens; the Russian keywords of the    *)
(*    source are transliterated to ASCII.                                  *)
(***************************************************************************)
EXTENDS Integers, Sequences, FiniteSets, TLC

VARIABLES
    call,                 \* arguments of a node called on its own
    ret,                  \* what that call returned
    settings,             \* runtime flags (app.core.settings.settings)
    cases,                \* the row of table cases: case_truth and policies
    kb_fragments,         \* table kb_fragments of the case
    session_trajectories, \* table session_trajectories of the session
    telemetry_turns,      \* table telemetry_turns of the session
    pc,                   \* position of run_turn
    request,              \* TurnRequest being processed
    n,                    \* result of normalize
    cands,                \* result of retrieve
    r,                    \* result of the reasoner
    g,                    \* result of guard
    patient_reply,        \* reply text formed in step 6
    response,             \* TurnResponse returned by run_turn
    trace,                \* what happened in the turn (history)
    turns                 \* number of turns started

vars == <<call, ret, settings, cases, kb_fragments, session_trajectories,
          telemetry_turns, pc, request, n, cands, r, g, patient_reply,
          response, trace, turns>>

pipeVars == <<settings, cases, kb_fragments, session_trajectories, telemetry_turns,
              pc, request, n, cands, r, g, patient_reply, response, trace,
              turns>>

----------------------------------------------------------------------------
(* Bounds of the model *)

MaxUttLen == 2
MaxTurns == 2
MaxTopK == 3
\* segments of an answer text handed to parse_llm_json
MaxSegments == 2
\* HTTP attempts of one chat request that the model follows
MaxAttempts == 4

----------------------------------------------------------------------------
(* Python values *)

PyNone == [isNone |-> TRUE]
EmptyDict == <<>>
NotSet == [unset |-> TRUE]

IsNone(x) == x = PyNone
HasKey(d, k) == k \in DOMAIN d
DictSet(d, k, v) == [x \in (DOMAIN d) \cup {k} |-> IF x = k THEN v ELSE d[x]]
DictGet(d, k, default) == IF k \in DOMAIN d THEN d[k] ELSE default
\* truth value of "x" for x a dict or None
Truthy(x) == ~IsNone(x) /\ DOMAIN x # {}

JNum(x) == [t |-> "num", v |-> x]
JStr(s) == [t |-> "str", v |-> s]
JList(s) == [t |-> "list", v |-> s]
JNull == [t |-> "null"]
\* "not x" for a list or a string
Falsy(x) == (x.t = "list" /\ x.v = <<>>) \/ (x.t = "str" /\ x.v = "")

\* an optional field: <<>> when absent, <<value>> when present
WithOpt(d, k, opt) == IF opt = <<>> THEN d ELSE DictSet(d, k, opt[1])

Range(s) == {s[i] : i \in DOMAIN s}
Min(a, b) == IF a <= b THEN a ELSE b
\* s[:k]
Take(s, k) == SubSeq(s, 1, Min(k, Len(s)))

RECURSIVE SeqFilterMap(_, _, _)
\* [F(x) for x in s if P(x)] for the operators given as functions
SeqFilterMap(s, P, F) ==
    IF s = <<>> THEN <<>>
    ELSE (IF P[Head(s)] THEN <<F[Head(s)]>> ELSE <<>>)
         \o SeqFilterMap(Tail(s), P, F)

\* sequences over S of length at most k
SeqsUpTo(S, k) == UNION {[1..m -> S] : m \in 0..k}
\* sequences over S of length exactly k without a repeated element
InjSeqs(S, k) == {s \in [1..k -> S] : \A i, j \in 1..k : i # j => s[i] # s[j]}

----------------------------------------------------------------------------
(* normalize.py *)

\* str.lower() on a token
Lower(tok) ==
    CASE tok = "SUICID" -> "suicid"
      [] tok = "Povesitsya" -> "povesitsya"
      [] tok = "BOL" -> "bol"
      [] tok = "Bol" -> "bol"
      [] tok = "Kak" -> "kak"
      [] OTHER -> tok

LowerSeq(s) == [i \in DOMAIN s |-> Lower(s[i])]

\* the single-word keywords that occur inside a (lower-case) token as a
\* substring: an inflected word contains its stem
Parts(tok) ==
    CASE tok = "suicide" -> {"suicide", "suicid"}
      [] tok = "kakoy" -> {"kakoy", "kak"}
      [] tok = "zasypaete" -> {"zasypaete", "zasypa"}
      [] OTHER -> {tok}

\* "keyword in utterance_lower": keyword is a phrase of one or more tokens
InText(keyword, utterance_lower) ==
    \/ keyword = <<>>
    \/ \E i \in 1..Len(utterance_lower) :
          /\ i + Len(keyword) - 1 <= Len(utterance_lower)
          /\ IF Len(keyword) = 1
             THEN keyword[1] \in Parts(utterance_lower[i])
             ELSE \A j \in 1..Len(keyword) :
                      utterance_lower[i + j - 1] = keyword[j]

AnyIn(keywords, utterance_lower) ==
    \E k \in DOMAIN keywords : InText(keywords[k], utterance_lower)

DefaultRiskKeywords ==
    << <<"suicid">>, <<"ubit", "sebya">>, <<"ne", "hochu", "zhit">>,
       <<"pokonchit", "s", "zhiznyu">> >>

DefaultSuicideKeywords ==
    << <<"suicid">>, <<"ubit", "sebya">>, <<"ne", "hochu", "zhit">>,
       <<"pokonchit", "s", "zhiznyu">>, <<"povesitsya">>, <<"otravitsya">> >>

ClarifyKeywords ==
    << <<"kak">>, <<"chto">>, <<"kogda">>, <<"gde">>, <<"pochemu">>,
       <<"kakoy">> >>

RapportKeywords ==
    << <<"ponimayu">>, <<"sochuvstvuyu">>, <<"podderzhivayu">> >>

TopicOrder == <<"sleep", "mood", "alcohol", "work", "family">>

TopicKeywords ==
    [sleep |-> << <<"spat">>, <<"spite">>, <<"son">>, <<"bessonnitsa">>,
                  <<"zasypa">> >>,
     mood |-> << <<"nastroenie">>, <<"depressiya">>, <<"grust">>,
                 <<"radost">>, <<"trevoga">> >>,
     alcohol |-> << <<"alkogol">>, <<"pit">>, <<"vypivka">>, <<"vodka">>,
                    <<"pivo">> >>,
     work |-> << <<"rabota">>, <<"rabotoy">>, <<"karyera">>, <<"kollegi">>,
                 <<"boss">> >>,
     family |-> << <<"semya">>, <<"semyey">>, <<"roditeli">>, <<"deti">>,
                   <<"zhena">>, <<"muzh">> >>]

LowerKeywords(keywords) == [k \in DOMAIN keywords |-> LowerSeq(keywords[k])]

_extract_intent(utterance_lower, trigger_keywords) ==
    LET risk_keywords == IF trigger_keywords # <<>> THEN trigger_keywords
                         ELSE DefaultRiskKeywords
    IN  IF AnyIn(LowerKeywords(risk_keywords), utterance_lower)
            THEN "risk_check"
        ELSE IF AnyIn(ClarifyKeywords, utterance_lower) THEN "clarify"
        ELSE IF AnyIn(RapportKeywords, utterance_lower) THEN "rapport"
        ELSE "open_question"

_extract_topics(utterance_lower) ==
    SeqFilterMap(TopicOrder,
                 [t \in Range(TopicOrder) |->
                      AnyIn(TopicKeywords[t], utterance_lower)],
                 [t \in Range(TopicOrder) |-> t])

_extract_risk_flags(utterance_lower, trigger_keywords) ==
    LET suicide_keywords == IF trigger_keywords # <<>> THEN trigger_keywords
                            ELSE DefaultSuicideKeywords
    IN  IF AnyIn(LowerKeywords(suicide_keywords), utterance_lower)
        THEN <<"suicide_ideation">>
        ELSE <<>>

SummaryLimit == 200

_create_summary(utterance) ==
    IF Len(utterance) <= SummaryLimit THEN utterance
    ELSE SubSeq(utterance, 1, SummaryLimit) \o <<"...">>

normalize(therapist_utterance, session_state_compact, policies) ==
    LET utterance_lower == LowerSeq(therapist_utterance)
        trigger_keywords ==
            IF Truthy(policies) /\ HasKey(policies, "risk_protocol")
            THEN DictGet(policies["risk_protocol"], "trigger_keywords", <<>>)
            ELSE <<>>
    IN  [intent |-> _extract_intent(utterance_lower, trigger_keywords),
         topics |-> _extract_topics(utterance_lower),
         risk_flags |-> _extract_risk_flags(utterance_lower, trigger_keywords),
         last_turn_summary |-> _create_summary(therapist_utterance)]

----------------------------------------------------------------------------
(* guard.py *)

SafetyLiteral == "[Risk-trigger: obraschenie k protokolu]"

\* guard that keeps a content plan the reasoner already supplied
guard_keep_plan(reason_output, policies, risk_flags) ==
    LET safe_output == IF Truthy(reason_output) THEN reason_output
                       ELSE EmptyDict
    IN  IF risk_flags # <<>>
        THEN LET s1 == IF HasKey(safe_output, "content_plan") THEN safe_output
                       ELSE DictSet(safe_output, "content_plan",
                                    <<SafetyLiteral>>)
                 s2 == IF HasKey(s1, "style_directives") THEN s1
                       ELSE DictSet(s1, "style_directives", EmptyDict)
                 s3 == DictSet(s2, "style_directives",
                               DictSet(s2["style_directives"], "tempo", "calm"))
             IN  [safe_output |-> s3, risk_status |-> "acute"]
        ELSE [safe_output |-> safe_output, risk_status |-> "none"]

guard(reason_output, policies, risk_flags) ==
    LET safe_output == IF Truthy(reason_output) THEN reason_output
                       ELSE EmptyDict
    IN  IF risk_flags # <<>>
        THEN LET s1 == DictSet(safe_output, "content_plan", <<SafetyLiteral>>)
                 s2 == IF HasKey(s1, "style_directives") THEN s1
                       ELSE DictSet(s1, "style_directives", EmptyDict)
                 s3 == DictSet(s2, "style_directives",
                               DictSet(s2["style_directives"], "tempo", "calm"))
             IN  [safe_output |-> s3, risk_status |-> "acute"]
        ELSE [safe_output |-> safe_output, risk_status |-> "none"]

----------------------------------------------------------------------------
(* retrieve.py *)

\* the dict retrieve returns for a row of kb_fragments
FragmentDict(f) ==
    [id |-> f.id, type |-> f.type, text |-> f.text, metadata |-> f.metadata]

FragmentDicts(rows) == [i \in DOMAIN rows |-> FragmentDict(rows[i])]

HasTrustGe(f) ==
    /\ HasKey(f.metadata, "disclosure_requirements")
    /\ HasKey(f.metadata["disclosure_requirements"], "trust_ge")

TrustGe(f) == f.metadata["disclosure_requirements"]["trust_ge"]

\* the WHERE clause on availability (the same in both strategies)
gated_condition(f, trust_level) ==
    /\ f.availability = "gated"
    /\ \/ ~HasKey(f.metadata, "disclosure_requirements")
       \/ ~HasTrustGe(f)
       \/ TrustGe(f) <= trust_level

availability_conditions_all_gated(f, trust_level) ==
    f.availability = "public" \/ f.availability = "gated"

availability_conditions(f, trust_level) ==
    f.availability = "public" \/ gated_condition(f, trust_level)

\* metadata->>'topic' = ANY(topics); a row without a topic never matches
TopicIn(f, topics) ==
    HasKey(f.metadata, "topic") /\ f.metadata["topic"] \in Range(topics)

\* rows a query without ORDER BY may return under LIMIT top_k: any top_k of
\* the matching rows, in any order
LimitRows(rows, top_k) == InjSeqs(rows, Min(top_k, Cardinality(rows)))

_get_random_public_fragment_any(kb, excluded_topics, trust_level) ==
    {FragmentDict(f) : f \in kb} \cup {PyNone}

\* the possible results: one of the candidates, or None (no candidate, or a
\* database error)
_get_random_public_fragment(kb, excluded_topics, trust_level) ==
    LET candidates ==
            {f \in kb :
                /\ f.availability = "public"
                /\ \A i \in DOMAIN excluded_topics :
                      /\ HasKey(f.metadata, "topic")
                      /\ f.metadata["topic"] # excluded_topics[i]}
    IN  {FragmentDict(f) : f \in candidates} \cup {PyNone}

\* the possible results of the metadata strategy; "noise" records whether a
\* noise fragment was appended
_metadata_retrieve(kb, topics, trust_level, top_k, path) ==
    LET matching ==
            {f \in kb :
                /\ availability_conditions(f, trust_level)
                /\ topics # <<>> => TopicIn(f, topics)}
        base == {FragmentDicts(rows) : rows \in LimitRows(matching, top_k)}
        plain == {[status |-> "ok", value |-> Take(b, top_k),
                   noise |-> FALSE, path |-> path] : b \in base}
        noisy ==
            {[status |-> "ok",
              value |-> Take(bn[1] \o <<bn[2]>>, top_k),
              noise |-> TRUE, path |-> path] :
                bn \in {x \in base \X
                               _get_random_public_fragment(kb, topics,
                                                           trust_level) :
                            /\ x[1] # <<>>
                            /\ ~IsNone(x[2])
                            /\ Len(x[1]) < top_k}}
    IN  plain \cup noisy

EmbedSpace == {1, 2, 3}

Abs(x) == IF x < 0 THEN -x ELSE x

\* embedding <=> :query_vector
Distance(f, query_vector) == Abs(f.embedding.v - query_vector)

\* ORDER BY distance LIMIT top_k
NearestRows(rows, query_vector, top_k) ==
    {s \in LimitRows(rows, top_k) :
        /\ \A i, j \in DOMAIN s :
              i < j => Distance(s[i], query_vector) <= Distance(s[j], query_vector)
        /\ \A f \in rows \ Range(s) : \A i \in DOMAIN s :
              Distance(s[i], query_vector) <= Distance(f, query_vector)}

\* the possible results of the vector strategy: the embedding of the query
\* may fail, and so may the similarity query
_vector_retrieve(kb, topics, trust_level, top_k) ==
    LET matching ==
            {f \in kb :
                /\ availability_conditions(f, trust_level)
                /\ f.embedding # JNull
                /\ topics # <<>> => TopicIn(f, topics)}
        found ==
            {[status |-> "ok", value |-> FragmentDicts(rows),
              noise |-> FALSE, path |-> "vector"] :
                rows \in UNION {NearestRows(matching, q, top_k) :
                                    q \in EmbedSpace}}
    IN  found \cup _metadata_retrieve(kb, topics, trust_level, top_k, "fallback")

DefaultTopK == 3

\* the possible outcomes of retrieve
retrieve(kb, case_exists, topics, session_state_compact, top_k, use_vector) ==
    LET trust_level == DictGet(session_state_compact, "trust", 0)
    IN  \* an unexpected error is re-raised
        {[status |-> "raise"]}
        \* SQLAlchemyError in any query: logged, empty list
        \cup {[status |-> "ok", value |-> <<>>, noise |-> FALSE,
               path |-> "db_error"]}
        \cup IF ~case_exists
             THEN {[status |-> "ok", value |-> <<>>, noise |-> FALSE,
                    path |-> "no_case"]}
             ELSE IF use_vector
                  THEN _vector_retrieve(kb, topics, trust_level, top_k)
                  ELSE _metadata_retrieve(kb, topics, trust_level, top_k,
                                          "metadata")

----------------------------------------------------------------------------
(* The knowledge base: rows of kb_fragments *)

Fragment(id, availability, metadata, embedding) ==
    [id |-> id, type |-> "bio", text |-> "text of " \o id,
     metadata |-> metadata, availability |-> availability,
     embedding |-> embedding]

F1 == Fragment("f1", "public", [topic |-> "sleep", tags |-> <<"sleep">>],
               JNum(1))
F2 == Fragment("f2", "gated",
               [topic |-> "mood", tags |-> <<"mood">>,
                disclosure_requirements |-> [trust_ge |-> 50]], JNum(2))
F3 == Fragment("f3", "hidden",
               [topic |-> "sleep", tags |-> <<"sleep", "secret">>], JNum(1))
F4 == Fragment("f4", "public", [topic |-> "work"], JNull)
F5 == Fragment("f5", "gated", [topic |-> "mood", tags |-> <<"mood">>],
               JNum(3))
F6 == Fragment("f6", "hidden",
               [topic |-> "mood", tags |-> <<"mood">>,
                disclosure_requirements |-> [trust_ge |-> 0]], JNum(2))

FragmentPool == {F1, F2, F3, F4, F5, F6}

\* the fragments of the case the turns are run against
CaseKB == {F1, F2, F3}

----------------------------------------------------------------------------
(* reason.py: the deterministic reasoner *)

_extract_style_directives(policies) ==
    LET default_style == [tempo |-> "medium", length |-> "short"]
    IN  IF ~Truthy(policies) THEN default_style
        ELSE LET style_profile == DictGet(policies, "style_profile", EmptyDict)
             IN  [tempo |-> DictGet(style_profile, "tempo",
                                    default_style.tempo),
                  length |-> DictGet(style_profile, "length",
                                     default_style.length)]

reason(case_truth, session_state, candidates, policies) ==
    LET first == Take(candidates, 2)
        hasText == [c \in Range(first) |-> HasKey(c, "text")]
        content_plan ==
            SeqFilterMap(first, hasText, [c \in Range(first) |-> c["text"]])
        chosen_ids ==
            SeqFilterMap(first, hasText,
                         [c \in Range(first) |-> DictGet(c, "id", "unknown")])
        trust_delta == IF candidates # <<>> THEN 2 ELSE -1
    IN  [content_plan |-> content_plan,
         distortions_plan |-> <<>>,
         style_directives |-> _extract_style_directives(policies),
         state_updates |-> [trust_delta |-> JNum(trust_delta),
                            fatigue_delta |-> JNum(0)],
         telemetry |-> [candidates_count |-> Len(candidates),
                        chosen_count |-> Len(chosen_ids),
                        chosen_ids |-> JList(chosen_ids),
                        content_plan_size |-> Len(content_plan)]]

----------------------------------------------------------------------------
(* reason_llm.py: the LLM reasoner *)

ConfusedSentence == "I'm feeling a bit confused right now"

JDict(d) == [t |-> "dict", v |-> d]

_create_fallback_response(case_truth, session_state) ==
    [content_plan |-> <<ConfusedSentence>>,
     style_directives |-> [tempo |-> "calm", length |-> "short"],
     state_updates |-> [trust_delta |-> JNum(-10), fatigue_delta |-> JNum(5)],
     telemetry |-> [chosen_ids |-> JList(<<>>)]]

\* An answer of the model is a text: how a JSON value is laid out in it
\* ("raw": the text is the JSON itself; "fence_json", "fence_plain": inside a
\* fenced block; "prose_json": surrounded by prose) or "prose"/"empty" without
\* any JSON.  json_loads is json.loads: it parses only a text that is JSON
\* from its first to its last character.
json_loads(content) ==
    IF content.wrap = "raw" THEN [ok |-> TRUE, value |-> content.json]
    ELSE [ok |-> FALSE]

\* message.get("reasoning_content") or message.get("content", "")
EmptyText == [wrap |-> "empty"]

MessageContent(message) ==
    LET rc == DictGet(message, "reasoning_content", EmptyText)
    IN  IF rc # EmptyText THEN rc ELSE DictGet(message, "content", EmptyText)

\* lines 127-162: the repair of the parsed object; raises TypeError when
\* len() is applied to chosen_ids that are a number or null
RepairResult(obj) ==
    LET cp == IF ~HasKey(obj, "content_plan") THEN <<ConfusedSentence>>
              ELSE IF obj["content_plan"].t = "list"
                   THEN obj["content_plan"].v
                   ELSE <<"str(content_plan)">>
        sd == IF ~HasKey(obj, "style_directives")
                 \/ obj["style_directives"].t # "dict"
              THEN [tempo |-> "medium", length |-> "short"]
              ELSE LET d == obj["style_directives"].v
                       d1 == IF HasKey(d, "tempo") THEN d
                             ELSE DictSet(d, "tempo", "medium")
                   IN  IF HasKey(d1, "length") THEN d1
                       ELSE DictSet(d1, "length", "short")
        su == IF ~HasKey(obj, "state_updates")
                 \/ obj["state_updates"].t # "dict"
              THEN [trust_delta |-> JNum(0), fatigue_delta |-> JNum(0)]
              ELSE LET d == obj["state_updates"].v
                       d1 == IF HasKey(d, "trust_delta") THEN d
                             ELSE DictSet(d, "trust_delta", JNum(0))
                   IN  IF HasKey(d1, "fatigue_delta") THEN d1
                       ELSE DictSet(d1, "fatigue_delta", JNum(0))
        tm == IF \/ ~HasKey(obj, "telemetry")
                 \/ obj["telemetry"].t # "dict"
                 \/ ~HasKey(obj["telemetry"].v, "chosen_ids")
              THEN [chosen_ids |-> JList(<<>>)]
              ELSE obj["telemetry"].v
    IN  IF tm["chosen_ids"].t \in {"list", "str"}
        THEN [ok |-> TRUE,
              value |-> [content_plan |-> cp, style_directives |-> sd,
                         state_updates |-> su, telemetry |-> tm]]
        ELSE [ok |-> FALSE]

\* llm is what the client does: it raises, or it returns a response
reason_llm(case_truth, session_state, candidates, policies, llm) ==
    IF llm.status = "raise"
    THEN _create_fallback_response(case_truth, session_state)
    ELSE IF llm.choices = <<>>
    THEN _create_fallback_response(case_truth, session_state)
    ELSE LET content == MessageContent(llm.choices[1])
             parsed == json_loads(content)
         IN  IF ~parsed.ok
             THEN \* json.JSONDecodeError
                  _create_fallback_response(case_truth, session_state)
             ELSE IF parsed.value.t # "dict"
             THEN \* TypeError on a list, a number or a string
                  _create_fallback_response(case_truth, session_state)
             ELSE LET fixed == RepairResult(parsed.value.v)
                  IN  IF fixed.ok THEN fixed.value
                      ELSE _create_fallback_response(case_truth, session_state)

----------------------------------------------------------------------------
(* generate_llm.py: the LLM generator *)

UnsureSentence == "I'm not sure how to respond right now."

\* an item of a content plan that is not a string: a JSON object the model
\* put into the list, written here as its text
NonStringItem == "{fact: sleep}"

\* isinstance(item, str) for an item of a content plan
IsStr(item) == item # NonStringItem

\* _create_fallback_response of generate_llm.py; " ".join raises TypeError
\* on an item that is not a string
_create_generation_fallback(content_plan) ==
    IF content_plan = <<>>
    THEN [status |-> "ok", value |-> [kind |-> "text", text |-> UnsureSentence]]
    ELSE IF \A item \in Range(Take(content_plan, 2)) : IsStr(item)
    THEN [status |-> "ok",
          value |-> [kind |-> "join", parts |-> Take(content_plan, 2)]]
    ELSE [status |-> "raise", exc |-> "TypeError"]

\* the text made of the first k sentences of the answer
LLMText(k) == [status |-> "ok", value |-> [kind |-> "llm", sentences |-> k]]

\* a generated text is described by the number of its sentences; an
\* exception raised by the fallback inside the except block leaves the
\* function
generate_llm(content_plan, style_directives, patient_context, llm) ==
    IF llm.status = "raise" THEN _create_generation_fallback(content_plan)
    ELSE IF llm.choices = <<>> THEN _create_generation_fallback(content_plan)
    ELSE LET sentence_count == llm.choices[1]["content"].sentences
             length_style == DictGet(style_directives, "length", "medium")
         IN  IF sentence_count = 0
             THEN _create_generation_fallback(content_plan)
             ELSE IF length_style = "short" /\ sentence_count > 1
             THEN LLMText(1)
             ELSE IF length_style = "long" /\ sentence_count > 3
             THEN LLMText(3)
             ELSE LLMText(sentence_count)

----------------------------------------------------------------------------
(* pipeline.py *)

\* f"Plan:{len(content_plan)} intent={intent} risk={...}"
PlanFormat(guarded, normalized) ==
    [kind |-> "plan", plan |-> Len(guarded.safe_output["content_plan"]),
     intent |-> normalized.intent,
     risk |-> IF guarded.risk_status = "acute" THEN "acute" ELSE "none"]

SafeFallbackResponse ==
    [patient_reply |-> [kind |-> "text", text |-> "safe-fallback"],
     state_updates |-> EmptyDict,
     used_fragments |-> <<>>,
     risk_status |-> "none",
     eval_markers |-> EmptyDict]

\* the handler that lets everything but database errors through
run_turn_except_db_only(exc) ==
    IF exc = "SQLAlchemyError"
    THEN [escaped |-> FALSE, response |-> SafeFallbackResponse]
    ELSE [escaped |-> TRUE, response |-> NotSet]

\* lines 293-302: "except Exception" around the whole turn
run_turn_except(exc) == [escaped |-> FALSE, response |-> SafeFallbackResponse]

\* coalesce(max(turn_no), 0) + 1
NextTurnNo(rows) ==
    IF rows = <<>> THEN 1
    ELSE (CHOOSE m \in {rows[i].turn_no : i \in DOMAIN rows} :
              \A i \in DOMAIN rows : rows[i].turn_no <= m) + 1

\* strings uuid.UUID accepts: the ids of stored fragments, and "f9", a
\* well-formed id no fragment has
UUIDStrings == {f.id : f \in FragmentPool} \cup {"f9"}

SeqToSet(s) == {s[i] : i \in DOMAIN s}

\* CaseTruth(**case_truth): the trajectories of a case truth that validates
ParseCaseTruth(case_truth) ==
    IF case_truth.trajectories.t = "trajectories"
    THEN [ok |-> TRUE, trajectories |-> case_truth.trajectories.v]
    ELSE [ok |-> FALSE]

\* lines 104-108: the tags of the used fragments found in kb_fragments
UsedTags(kb, used_fragments) ==
    UNION {SeqToSet(f.metadata["tags"]) :
              f \in {x \in kb : /\ x.id \in SeqToSet(used_fragments)
                                /\ HasKey(x.metadata, "tags")}}

\* lines 131-145: the steps of a trajectory completed by this turn
new_completed_steps(trajectory, existing, trust, used_tags) ==
    LET steps == trajectory.steps
        met == [st \in Range(steps) |->
                   /\ st.id \notin SeqToSet(existing)
                   /\ ~(trust < st.min_trust)
                   /\ ~(/\ st.condition_tags # <<>>
                        /\ SeqToSet(st.condition_tags) \cap used_tags = {})]
    IN  SeqFilterMap(steps, met, [st \in Range(steps) |-> st.id])

\* an update that stores only the steps completed by this turn
updated_completed_steps_new_only(existing, new_steps) == new_steps

\* line 154: existing_completed_steps + new_completed_steps
updated_completed_steps(existing, new_steps) == existing \o new_steps

RECURSIVE ApplyTrajectories(_, _, _, _)
\* lines 114-163: the loop over the trajectories, on the rows of the session
ApplyTrajectories(trajectories, table, session_state_trust, used_tags) ==
    IF trajectories = <<>> THEN table
    ELSE LET trajectory == Head(trajectories)
             existing == DictGet(table, trajectory.id, <<>>)
             new == new_completed_steps(trajectory, existing,
                                        session_state_trust, used_tags)
             table1 == IF new = <<>> THEN table
                       ELSE IF HasKey(table, trajectory.id)
                       THEN DictSet(table, trajectory.id,
                                    updated_completed_steps(existing, new))
                       ELSE DictSet(table, trajectory.id, new)
         IN  ApplyTrajectories(Tail(trajectories), table1,
                               session_state_trust, used_tags)

\* update_trajectory_progress up to its commit; fail is the database call
\* that raises ("none", "query", "commit")
update_trajectory_progress(table, kb, case_truth, trust, used_fragments, fail) ==
    LET parsed == ParseCaseTruth(case_truth)
    IN  IF ~parsed.ok THEN [status |-> "failed", table |-> table]
        ELSE IF parsed.trajectories = <<>> \/ Falsy(used_fragments)
             THEN [status |-> "skipped", table |-> table]
        ELSE IF \/ used_fragments.t # "list"
                \/ ~(SeqToSet(used_fragments.v) \subseteq UUIDStrings)
             THEN [status |-> "failed", table |-> table]
        ELSE IF fail = "query" THEN [status |-> "failed", table |-> table]
        ELSE LET used_tags == UsedTags(kb, used_fragments.v)
             IN  IF used_tags = {}
                 THEN [status |-> "skipped", table |-> table]
                 ELSE IF fail = "commit"
                      THEN [status |-> "failed", table |-> table]
                      ELSE [status |-> "updated",
                            table |-> ApplyTrajectories(parsed.trajectories,
                                                        table, trust,
                                                        used_tags)]

----------------------------------------------------------------------------
(* State of the pipeline between turns *)

DefaultSettings ==
    [RAG_USE_VECTOR |-> FALSE, USE_DEEPSEEK_REASON |-> FALSE,
     USE_DEEPSEEK_GEN |-> FALSE]

TrustLevels == {0, 30, 50, 100}

T1 ==
    [id |-> "t1", name |-> "history",
     steps |-> <<[id |-> "sleep", name |-> "sleep",
                  condition_tags |-> <<"sleep">>, min_trust |-> 30],
                 [id |-> "mood", name |-> "mood",
                  condition_tags |-> <<"mood">>, min_trust |-> 50]>>]

T2 ==
    [id |-> "t2", name |-> "alliance",
     steps |-> <<[id |-> "open", name |-> "open",
                  condition_tags |-> <<>>, min_trust |-> 40]>>]

CasePolicies ==
    [risk_protocol |-> [trigger_keywords |-> <<>>],
     style_profile |-> [tempo |-> "medium", length |-> "short"]]

\* a case created through the API: its case truth validates
CaseA ==
    [case_truth |-> [dx_target |-> <<"MDD">>,
                     trajectories |-> [t |-> "trajectories", v |-> <<T1, T2>>]],
     policies |-> CasePolicies]

\* a case loaded by the CLI, which does not validate the case truth: the
\* trajectories are plain strings and dx_target is empty
CaseB ==
    [case_truth |-> [dx_target |-> <<>>,
                     trajectories |-> [t |-> "strings",
                                       v |-> <<"uluchshenie">>]],
     policies |-> CasePolicies]

Sessions == {"s1"}

\* rows: the number of telemetry rows stored when the turn began
IdleTrace == [raised |-> "none", traj |-> "none", noise |-> FALSE, rows |-> 0]

LocalsIdle ==
    /\ pc = "idle"
    /\ request = NotSet
    /\ n = NotSet
    /\ cands = NotSet
    /\ r = NotSet
    /\ g = NotSet
    /\ patient_reply = NotSet
    /\ response = NotSet
    /\ trace = IdleTrace

TurnIdle == LocalsIdle /\ turns = 0

PipeInit ==
    /\ settings = DefaultSettings
    /\ cases \in {CaseA, CaseB}
    /\ kb_fragments = CaseKB
    /\ session_trajectories = EmptyDict
    /\ telemetry_turns = <<>>
    /\ TurnIdle

----------------------------------------------------------------------------
(* guard called on its own, on any reasoner output *)

PolicyChoices ==
    {PyNone, EmptyDict,
     [risk_protocol |-> EmptyDict],
     [risk_protocol |-> [trigger_keywords |-> <<>>]],
     [risk_protocol |-> [trigger_keywords |-> << <<"Bol">> >>]],
     [risk_protocol |-> [trigger_keywords |-> << <<"kak">>, <<"ubit", "sebya">> >>],
      style_profile |-> [tempo |-> "slow", length |-> "long"]]}

ReasonOutputs ==
    {PyNone} \cup
    {WithOpt(WithOpt(WithOpt(WithOpt(EmptyDict, "content_plan", cp),
                             "style_directives", sd),
                     "state_updates", su),
             "telemetry", tm) :
        cp \in {<<>>, << <<>> >>, << <<"p1">> >>, << <<"p1", "p2">> >>},
        sd \in {<<>>, <<EmptyDict>>, <<[tempo |-> "fast"]>>,
                <<[tempo |-> "medium", length |-> "long"]>>},
        su \in {<<>>, <<[trust_delta |-> JNum(2), fatigue_delta |-> JNum(0)]>>},
        tm \in {<<>>, <<[chosen_ids |-> JList(<<"f1">>)]>>}}

RiskFlagChoices ==
    {<<>>, <<"suicide_ideation">>, <<"suicide_ideation", "self_harm">>}

InitGuard ==
    /\ PipeInit
    /\ cases = CaseA
    /\ ret = NotSet
    /\ call \in {[fn |-> "guard", reason_output |-> ro, policies |-> p,
                  risk_flags |-> rf] :
                    ro \in ReasonOutputs, p \in PolicyChoices,
                    rf \in RiskFlagChoices}

CallGuard ==
    /\ call.fn = "guard"
    /\ ret = NotSet
    /\ ret' = guard(call.reason_output, call.policies, call.risk_flags)
    /\ UNCHANGED <<call, pipeVars>>

SpecGuard == InitGuard /\ [][CallGuard]_vars

----------------------------------------------------------------------------
(* normalize called on its own, on any utterance *)

Vocabulary ==
    {"suicid", "SUICID", "suicide", "povesitsya", "ubit", "sebya", "kak",
     "ponimayu", "son", "BOL", "privet"}

Utterances == SeqsUpTo(Vocabulary, MaxUttLen)

InitNormalize ==
    /\ PipeInit
    /\ cases = CaseA
    /\ ret = NotSet
    /\ call \in {[fn |-> "normalize", therapist_utterance |-> u,
                  policies |-> p] :
                    u \in Utterances, p \in PolicyChoices}

CallNormalize ==
    /\ call.fn = "normalize"
    /\ ret = NotSet
    /\ ret' = normalize(call.therapist_utterance, EmptyDict, call.policies)
    /\ UNCHANGED <<call, pipeVars>>

SpecNormalize == InitNormalize /\ [][CallNormalize]_vars

\* the trigger_keywords normalize reads from the policies
PolicyTriggerKeywords(policies) ==
    IF Truthy(policies) /\ HasKey(policies, "risk_protocol")
    THEN DictGet(policies["risk_protocol"], "trigger_keywords", <<>>)
    ELSE <<>>

\* the utterance contains, case-insensitively, a risk keyword of the active
\* configuration: the policy's trigger_keywords when non-empty, otherwise a
\* keyword of the built-in risk or suicide lists
ContainsRiskKeyword(utterance, policies) ==
    LET tk == PolicyTriggerKeywords(policies)
        active == IF tk # <<>> THEN tk
                  ELSE DefaultRiskKeywords \o DefaultSuicideKeywords
    IN  AnyIn(LowerKeywords(active), LowerSeq(utterance))

\* C3: for every utterance that contains a risk keyword of the active
\* configuration, normalize returns both intent "risk_check" and
\* risk_flags = ["suicide_ideation"].
NormalizeRiskIntentAndFlags ==
    (/\ call.fn = "normalize"
     /\ ret # NotSet
     /\ ContainsRiskKeyword(call.therapist_utterance, call.policies))
        => /\ ret.intent = "risk_check"
           /\ ret.risk_flags = <<"suicide_ideation">>

----------------------------------------------------------------------------
(* retrieve called on its own, on any store, trust, topics and top_k *)

Stores == {FragmentPool, {}} \cup {FragmentPool \ {f} : f \in FragmentPool}

TopicChoices == {<<>>, <<"sleep">>, <<"mood">>, <<"sleep", "mood">>}

InitRetrieve ==
    /\ TurnIdle
    /\ cases = CaseA
    /\ session_trajectories = EmptyDict
    /\ telemetry_turns = <<>>
    /\ kb_fragments \in Stores
    /\ settings \in {[DefaultSettings EXCEPT !.RAG_USE_VECTOR = b] :
                        b \in BOOLEAN}
    /\ ret = NotSet
    /\ call \in {[fn |-> "retrieve", case_exists |-> ce, topics |-> tp,
                  session_state_compact |-> ssc, top_k |-> k] :
                    ce \in BOOLEAN, tp \in TopicChoices,
                    ssc \in {[trust |-> t] : t \in TrustLevels} \cup {EmptyDict},
                    k \in 1..MaxTopK}

CallRetrieve ==
    /\ call.fn = "retrieve"
    /\ ret = NotSet
    /\ ret' \in retrieve(kb_fragments, call.case_exists, call.topics,
                         call.session_state_compact, call.top_k,
                         settings.RAG_USE_VECTOR)
    /\ UNCHANGED <<call, pipeVars>>

SpecRetrieve == InitRetrieve /\ [][CallRetrieve]_vars

\* the rows of the store behind the returned list
ReturnedRows(kb, value) ==
    {f \in kb : \E i \in DOMAIN value : value[i]["id"] = f.id}

CallTrust == DictGet(call.session_state_compact, "trust", 0)

\* C2: for every trust value, topic list, top_k and either strategy (with
\* the noise step of the metadata strategy and the fallback of the vector
\* strategy), no fragment whose availability tier is hidden is in the list
\* retrieve returns.
HiddenNeverReturned ==
    (call.fn = "retrieve" /\ ret # NotSet /\ ret.status = "ok")
        => \A f \in ReturnedRows(kb_fragments, ret.value) :
               f.availability # "hidden"

\* retrieve has returned fragments, one of them by noise injection, from a
\* store that holds hidden fragments, at full trust
HiddenNeverReturnedWitness ==
    /\ call.fn = "retrieve"
    /\ ret # NotSet
    /\ ret.status = "ok"
    /\ ret.noise
    /\ Len(ret.value) >= 2
    /\ {F3, F6} \subseteq kb_fragments
    /\ CallTrust = 100

\* C4: in metadata mode a gated fragment with a disclosure requirement
\* trust_ge = t is never returned (by the main query or as noise) while the
\* session trust is below t; with trust >= t it passes the availability
\* filter: when the main query ran and the result is not cut by top_k, every
\* such fragment matching the topics is in the result.
GatedRespectsTrustGe ==
    (/\ call.fn = "retrieve"
     /\ ret # NotSet
     /\ ret.status = "ok"
     /\ ~settings.RAG_USE_VECTOR)
        => /\ \A f \in ReturnedRows(kb_fragments, ret.value) :
                  (f.availability = "gated" /\ HasTrustGe(f))
                      => TrustGe(f) <= CallTrust
           /\ (ret.path = "metadata" /\ Len(ret.value) < call.top_k)
                  => \A f \in kb_fragments :
                         (/\ f.availability = "gated"
                          /\ HasTrustGe(f)
                          /\ TrustGe(f) <= CallTrust
                          /\ call.topics # <<>> => TopicIn(f, call.topics))
                             => f \in ReturnedRows(kb_fragments, ret.value)

\* the metadata strategy has returned fragments for the topic of a gated
\* fragment whose trust_ge is above the session trust
GatedRespectsTrustGeWitness ==
    /\ call.fn = "retrieve"
    /\ ret # NotSet
    /\ ret.status = "ok"
    /\ ~settings.RAG_USE_VECTOR
    /\ ret.path = "metadata"
    /\ F2 \in kb_fragments
    /\ CallTrust = 30
    /\ call.topics = <<"mood">>
    /\ ret.value # <<>>

\* retrieve has returned a list with the vector strategy selected
VectorModeReturned ==
    /\ call.fn = "retrieve"
    /\ ret # NotSet
    /\ ret.status = "ok"
    /\ settings.RAG_USE_VECTOR

\* C19: whenever the vector strategy is selected, the list retrieve returns
\* holds no noise-injected fragment, whether the query embedding and the
\* similarity query succeed or fail and the fallback path runs.
VectorModeNoNoise == VectorModeReturned => ~ret.noise

\* C20: in vector mode the requested topics never exclude a fragment: when
\* the similarity query ran and its result is not cut by top_k, every
\* fragment that passes the availability gating and has an embedding is in
\* the result, whether or not its topic is among the requested ones.
VectorTopicsNeverExclude ==
    (VectorModeReturned /\ ret.path = "vector" /\ Len(ret.value) < call.top_k)
        => \A f \in kb_fragments :
               (availability_conditions(f, CallTrust) /\ f.embedding # JNull)
                   => f \in ReturnedRows(kb_fragments, ret.value)

----------------------------------------------------------------------------
(* run_turn: one turn at a time, from the request to the response *)

dbVars == <<settings, cases, kb_fragments, session_trajectories,
            telemetry_turns>>

PipelineUtterances == {<<"kak", "son">>, <<"privet">>, <<"povesitsya">>}
PipelineTrust == {20, 60}
SessionIds == {"s1", "s0"}

\* what the LLM client gives the reasoner: an exception, a response without
\* choices, or a response whose first message holds the answer text
StateUpdatesExtreme ==
    [trust_delta |-> JNum(900), fatigue_delta |-> JNum(-500)]

ReasonPayloads ==
    {EmptyDict,
     [content_plan |-> JList(<<"p1">>),
      state_updates |-> JDict(StateUpdatesExtreme),
      telemetry |-> JDict([chosen_ids |-> JList(<<"kb999", "f1">>)])],
     [content_plan |-> JList(<<"p1", "p2">>),
      style_directives |-> JDict([length |-> "long"]),
      state_updates |-> JDict([trust_delta |-> JNum(5)]),
      telemetry |-> JDict([chosen_ids |-> JList(<<"f3">>)])],
     [content_plan |-> JStr("p1"),
      telemetry |-> JDict([chosen_ids |-> JStr("f1")])],
     [content_plan |-> JList(<<NonStringItem>>)],
     [telemetry |-> JDict([chosen_ids |-> JNull])]}

ReasonAnswers ==
    {[wrap |-> "prose"], [wrap |-> "raw", json |-> JList(<<>>)],
     [wrap |-> "fence_json", json |-> JDict(EmptyDict)]}
    \cup {[wrap |-> "raw", json |-> JDict(p)] : p \in ReasonPayloads}

\* what the client raises: network error, timeout, HTTP error status
ClientExceptions == {"ConnectError", "ReadTimeout", "HTTPStatusError"}

ClientRaises == {[status |-> "raise", exc |-> e] : e \in ClientExceptions}

ReasonLLM ==
    ClientRaises \cup {[status |-> "ok", choices |-> <<>>]}
    \cup {[status |-> "ok", choices |-> <<[content |-> a]>>] :
             a \in ReasonAnswers}
    \cup {[status |-> "ok",
           choices |-> <<[reasoning_content |-> [wrap |-> "prose"],
                          content |-> [wrap |-> "raw",
                                       json |-> JDict(EmptyDict)]]>>]}

GenerateLLM ==
    ClientRaises
    \cup {[status |-> "ok", choices |-> <<[content |-> [sentences |-> k]]>>] :
             k \in {0, 2}}

\* lines 293-302 reached from a stage that raised exc
Raised(stage, exc) ==
    /\ pc' = IF run_turn_except(exc).escaped THEN "escaped" ELSE "done"
    /\ response' = run_turn_except(exc).response
    /\ trace' = [trace EXCEPT !.raised = stage]
    /\ UNCHANGED <<call, ret, dbVars, request, n, cands, r, g, patient_reply,
                   turns>>

\* POST /turn reaches run_turn
BeginTurn ==
    /\ pc = "idle"
    /\ turns < MaxTurns
    /\ \E u \in PipelineUtterances, t \in PipelineTrust, sid \in SessionIds :
          request' = [therapist_utterance |-> u,
                      session_state |-> [trust |-> t],
                      session_id |-> sid]
    /\ pc' = "session"
    /\ turns' = turns + 1
    /\ trace' = [trace EXCEPT !.rows = Len(telemetry_turns)]
    /\ UNCHANGED <<call, ret, dbVars, n, cands, r, g, patient_reply, response>>

\* lines 190-196
SessionLookup ==
    /\ pc = "session"
    /\ \/ Raised("session", "SQLAlchemyError")
       \/ /\ request.session_id \notin Sessions
          /\ Raised("session", "ValueError")
       \/ /\ request.session_id \in Sessions
          /\ pc' = "normalize"
          /\ UNCHANGED <<call, ret, dbVars, request, n, cands, r, g,
                         patient_reply, response, trace, turns>>

\* lines 198-205: get_policies, then normalize
Normalize ==
    /\ pc = "normalize"
    /\ \/ Raised("policies", "SQLAlchemyError")
       \/ /\ n' = normalize(request.therapist_utterance,
                            request.session_state, cases.policies)
          /\ pc' = "retrieve"
          /\ UNCHANGED <<call, ret, dbVars, request, cands, r, g,
                         patient_reply, response, trace, turns>>

\* lines 207-214
Retrieve ==
    /\ pc = "retrieve"
    /\ \E o \in retrieve(kb_fragments, TRUE, n.topics, request.session_state,
                         DefaultTopK, settings.RAG_USE_VECTOR) :
          \/ /\ o.status = "raise"
             /\ Raised("retrieve", "Exception")
          \/ /\ o.status = "ok"
             /\ cands' = o.value
             /\ trace' = [trace EXCEPT !.noise = o.noise]
             /\ pc' = "reason"
             /\ UNCHANGED <<call, ret, dbVars, request, n, r, g,
                            patient_reply, response, turns>>

\* lines 216-229: get_case_truth, then the reasoner the flag selects
Reason ==
    /\ pc = "reason"
    /\ \/ Raised("case_truth", "SQLAlchemyError")
       \/ /\ \/ /\ settings.USE_DEEPSEEK_REASON
                /\ \E llm \in ReasonLLM :
                      r' = reason_llm(cases.case_truth, request.session_state,
                                      cands, cases.policies, llm)
             \/ /\ ~settings.USE_DEEPSEEK_REASON
                /\ r' = reason(cases.case_truth, request.session_state, cands,
                               cases.policies)
          /\ pc' = "guard"
          /\ UNCHANGED <<call, ret, dbVars, request, n, cands, g,
                         patient_reply, response, trace, turns>>

\* line 232
Guard ==
    /\ pc = "guard"
    /\ g' = guard(r, cases.policies, n.risk_flags)
    /\ pc' = "generate"
    /\ UNCHANGED <<call, ret, dbVars, request, n, cands, r, patient_reply,
                   response, trace, turns>>

\* lines 234-253: the reply text; an empty dx_target raises IndexError, which
\* the inner handler turns into the plan format
Generate ==
    /\ pc = "generate"
    /\ \/ /\ settings.USE_DEEPSEEK_GEN
          /\ cases.case_truth.dx_target # <<>>
          /\ \E llm \in GenerateLLM :
                LET generated ==
                        generate_llm(g.safe_output["content_plan"],
                                     g.safe_output["style_directives"],
                                     cases.case_truth.dx_target[1], llm)
                IN  patient_reply' = IF generated.status = "ok"
                                     THEN generated.value
                                     ELSE PlanFormat(g, n)
       \/ /\ settings.USE_DEEPSEEK_GEN
          /\ cases.case_truth.dx_target = <<>>
          /\ patient_reply' = PlanFormat(g, n)
       \/ /\ ~settings.USE_DEEPSEEK_GEN
          /\ patient_reply' = PlanFormat(g, n)
    /\ pc' = "telemetry"
    /\ UNCHANGED <<call, ret, dbVars, request, n, cands, r, g, response,
                   trace, turns>>

\* r["telemetry"].get("chosen_ids", [])
used_fragments_of(reasoned) ==
    DictGet(reasoned.telemetry, "chosen_ids", JList(<<>>))

\* lines 305-352: one row with the next turn number is added and committed;
\* a database error is rolled back and raised again.  Of the columns of the
\* row the model keeps turn_no and risk_status.
RecordTelemetry ==
    /\ pc = "telemetry"
    /\ \/ Raised("telemetry", "SQLAlchemyError")
       \/ /\ telemetry_turns' =
                Append(telemetry_turns,
                       [turn_no |-> NextTurnNo(telemetry_turns),
                        risk_status |-> g.risk_status])
          /\ pc' = "trajectory"
          /\ UNCHANGED <<call, ret, settings, cases, kb_fragments,
                         session_trajectories, request, n, cands, r, g,
                         patient_reply, response, trace, turns>>

\* lines 276-283 with lines 70-170: the update either commits, returns early,
\* or fails; a failure is followed by db.rollback(), which may itself raise
UpdateTrajectory ==
    /\ pc = "trajectory"
    /\ \E fail \in {"none", "query", "commit"}, rollback_ok \in BOOLEAN :
          LET u == update_trajectory_progress(
                       session_trajectories, kb_fragments, cases.case_truth,
                       request.session_state.trust, used_fragments_of(r),
                       fail)
          IN  \/ /\ u.status = "failed"
                 /\ ~rollback_ok
                 /\ Raised("trajectory", "SQLAlchemyError")
              \/ /\ u.status = "failed" => rollback_ok
                 /\ session_trajectories' = u.table
                 /\ trace' = [trace EXCEPT !.traj = u.status]
                 /\ pc' = "respond"
                 /\ UNCHANGED <<call, ret, settings, cases, kb_fragments,
                                telemetry_turns, request, n, cands, r, g,
                                patient_reply, response, turns>>

\* what lines 285-291 build
TurnResponse(reply, normalized, reasoned, guarded) ==
    [patient_reply |-> reply,
     state_updates |-> DictSet(reasoned.state_updates, "last_turn_summary",
                               [t |-> "text",
                                v |-> normalized.last_turn_summary]),
     used_fragments |-> used_fragments_of(reasoned).v,
     risk_status |-> guarded.risk_status,
     eval_markers |-> [intent |-> normalized.intent,
                       topics |-> normalized.topics]]

\* lines 285-291: TurnResponse validates used_fragments as a list of strings
Respond ==
    /\ pc = "respond"
    /\ \/ /\ used_fragments_of(r).t # "list"
          /\ Raised("response", "ValidationError")
       \/ /\ used_fragments_of(r).t = "list"
          /\ response' = TurnResponse(patient_reply, n, r, g)
          /\ pc' = "done"
          /\ UNCHANGED <<call, ret, dbVars, request, n, cands, r, g,
                         patient_reply, trace, turns>>

\* the response has been handed to the caller; the locals are gone
EndTurn ==
    /\ pc \in {"done", "escaped"}
    /\ pc' = "idle"
    /\ request' = NotSet
    /\ n' = NotSet
    /\ cands' = NotSet
    /\ r' = NotSet
    /\ g' = NotSet
    /\ patient_reply' = NotSet
    /\ response' = NotSet
    /\ trace' = IdleTrace
    /\ UNCHANGED <<call, ret, dbVars, turns>>

\* POST /admin/rag_mode
set_rag_mode ==
    /\ pc = "idle"
    /\ \E use_vector \in BOOLEAN :
          settings' = [settings EXCEPT !.RAG_USE_VECTOR = use_vector]
    /\ UNCHANGED <<call, ret, cases, kb_fragments, session_trajectories,
                   telemetry_turns, pc, request, n, cands, r, g,
                   patient_reply, response, trace, turns>>

\* an Optional[bool] field of a request: <<>> is None
OptionalBool == {<<>>, <<TRUE>>, <<FALSE>>}

\* POST /admin/llm_flags: a flag that is None is left as it is
set_llm_flags ==
    /\ pc = "idle"
    /\ \E use_reason \in OptionalBool, use_gen \in OptionalBool :
          settings' =
              [settings EXCEPT
                  !.USE_DEEPSEEK_REASON =
                      IF use_reason = <<>> THEN @ ELSE use_reason[1],
                  !.USE_DEEPSEEK_GEN =
                      IF use_gen = <<>> THEN @ ELSE use_gen[1]]
    /\ UNCHANGED <<call, ret, cases, kb_fragments, session_trajectories,
                   telemetry_turns, pc, request, n, cands, r, g,
                   patient_reply, response, trace, turns>>

Init ==
    /\ PipeInit
    /\ call = NotSet
    /\ ret = NotSet

Next ==
    \/ BeginTurn
    \/ SessionLookup
    \/ Normalize
    \/ Retrieve
    \/ Reason
    \/ Guard
    \/ Generate
    \/ RecordTelemetry
    \/ UpdateTrajectory
    \/ Respond
    \/ EndTurn
    \/ set_rag_mode
    \/ set_llm_flags

Spec == Init /\ [][Next]_vars

----------------------------------------------------------------------------
(* Properties of run_turn *)

StateUpdatesClamped ==
    (pc = "done") =>
        /\ HasKey(response.state_updates, "trust_delta") =>
              /\ response.state_updates["trust_delta"].t = "num"
              /\ response.state_updates["trust_delta"].v \in -20..20
        /\ HasKey(response.state_updates, "fatigue_delta") =>
              /\ response.state_updates["fatigue_delta"].t = "num"
              /\ response.state_updates["fatigue_delta"].v \in 0..20

\* C7: a step id stored in the completed-steps list of a (session,
\* trajectory) row is still stored in it after every later step of every
\* later turn, whatever the trust and the used fragments of that turn are.
CompletedStepsMonotonic ==
    [][\A tid \in DOMAIN session_trajectories :
          /\ tid \in DOMAIN session_trajectories'
          /\ SeqToSet(session_trajectories[tid])
                 \subseteq SeqToSet(session_trajectories'[tid])]_vars

\* a later turn whose trust is below every min_trust has run its trajectory
\* update on used fragments that carry tags, and the step completed by an
\* earlier turn is still stored
CompletedStepsMonotonicWitness ==
    /\ pc = "respond"
    /\ trace.traj = "updated"
    /\ request.session_state.trust = 20
    /\ HasKey(session_trajectories, "t1")
    /\ "sleep" \in SeqToSet(session_trajectories["t1"])

\* the metadata tags of the fragments used this turn
TurnUsedTags ==
    IF used_fragments_of(r).t = "list"
    THEN UsedTags(kb_fragments, used_fragments_of(r).v)
    ELSE {}

\* C8: after a trajectory update that finished without error, every step
\* that was not yet completed and has trust >= min_trust and (no condition
\* tags or condition tags that intersect the tags of the used fragments) is
\* in the stored completed-steps list of its trajectory.
EligibleStepsCompleted ==
    [][(/\ pc = "trajectory"
        /\ pc' = "respond"
        /\ trace'.traj # "failed"
        /\ ParseCaseTruth(cases.case_truth).ok)
       => \A i \in DOMAIN ParseCaseTruth(cases.case_truth).trajectories :
            LET trajectory == ParseCaseTruth(cases.case_truth).trajectories[i]
            IN  \A j \in DOMAIN trajectory.steps :
                  LET step == trajectory.steps[j]
                  IN  (/\ step.id \notin
                             SeqToSet(DictGet(session_trajectories,
                                              trajectory.id, <<>>))
                       /\ request.session_state.trust >= step.min_trust
                       /\ \/ step.condition_tags = <<>>
                          \/ SeqToSet(step.condition_tags) \cap TurnUsedTags
                                 # {})
                      => /\ HasKey(session_trajectories', trajectory.id)
                         /\ step.id \in
                                SeqToSet(session_trajectories'[trajectory.id])
      ]_vars

\* a turn of an existing session has returned its response
TurnProcessed == pc = "done" /\ request.session_id \in Sessions

\* C22: every turn processed for a session appends exactly one telemetry
\* record, whose turn_no is the largest stored turn_no plus 1 (1 for the
\* first turn), so that the turn numbers of the session are 1, 2, ..., n
\* without gap or repeat.
EveryTurnAppendsOneRecord ==
    TurnProcessed =>
        /\ Len(telemetry_turns) = trace.rows + 1
        /\ \A i \in DOMAIN telemetry_turns : telemetry_turns[i].turn_no = i

\* C25: for every turn whose utterance yields a non-empty risk_flags list
\* from normalize, the response returned by run_turn never has risk_status
\* "none", whatever happens in the stages that run after guard (generation,
\* telemetry append, trajectory update, response construction).
RiskTurnNeverReportsNone ==
    (pc = "done" /\ g # NotSet /\ n.risk_flags # <<>>)
        => response.risk_status # "none"

\* C28: in every response returned by run_turn (and in the telemetry record
\* of the turn, which is given the same list) every id in used_fragments is
\* the id of a fragment that retrieve returned in the same turn, under both
\* the stub and the LLM reasoning strategy.
UsedFragmentsWereRetrieved ==
    (pc = "done" /\ trace.raised = "none")
        => \A i \in DOMAIN response.used_fragments :
               \E j \in DOMAIN cands :
                   cands[j].id = response.used_fragments[i]

\* the response run_turn returns when the trajectory update succeeds
ResponseOfTurn ==
    IF used_fragments_of(r).t = "list"
    THEN TurnResponse(patient_reply, n, r, g)
    ELSE SafeFallbackResponse

\* C9: when the trajectory update of a turn failed, at the parse, the id
\* conversion, a query, the commit or the rollback after a failure, the
\* response of the turn is the one returned when the update succeeds.
TrajectoryFailureKeepsResponse ==
    (pc = "done" /\ (trace.traj = "failed" \/ trace.raised = "trajectory"))
        => response = ResponseOfTurn

----------------------------------------------------------------------------
(* reason_llm called on its own, on any answer of the LLM client *)

CandidateLists ==
    {<<>>}
    \cup {<<FragmentDict(f)>> : f \in CaseKB}
    \cup {<<FragmentDict(c[1]), FragmentDict(c[2])>> :
             c \in InjSeqs(CaseKB, 2)}

\* a complete reasoning object
FullPayload ==
    [content_plan |-> JList(<<"p1", "p2">>),
     style_directives |-> JDict([length |-> "long"]),
     state_updates |-> JDict([trust_delta |-> JNum(5)]),
     telemetry |-> JDict([chosen_ids |-> JList(<<"f3">>)])]

\* answers that hold the object in a ```json fence, in a plain ``` fence, or
\* in the middle of prose, read from content or from reasoning_content
WrappedAnswers ==
    {[wrap |-> w, json |-> JDict(FullPayload)] :
        w \in {"fence_json", "fence_plain", "prose_json"}}

ReasonLLMWrapped ==
    {[status |-> "ok", choices |-> <<[content |-> a]>>] :
        a \in WrappedAnswers}
    \cup {[status |-> "ok",
           choices |-> <<[reasoning_content |-> a,
                          content |-> [wrap |-> "empty"]]>>] :
             a \in WrappedAnswers}

ReasonLLMCalls ==
    {[fn |-> "reason_llm", candidates |-> c, llm |-> llm] :
        c \in CandidateLists, llm \in ReasonLLM \cup ReasonLLMWrapped}

InitReasonLLM ==
    /\ PipeInit
    /\ cases = CaseA
    /\ ret = NotSet
    /\ call \in ReasonLLMCalls

CallReasonLLM ==
    /\ call.fn = "reason_llm"
    /\ ret = NotSet
    /\ ret' = reason_llm(cases.case_truth, [trust |-> 60], call.candidates,
                         cases.policies, call.llm)
    /\ UNCHANGED <<call, pipeVars>>

SpecReasonLLM == InitReasonLLM /\ [][CallReasonLLM]_vars

\* the answer text of the client's response holds no JSON at all
AnswerWithoutJSON(llm) ==
    /\ llm.status = "ok"
    /\ llm.choices # <<>>
    /\ MessageContent(llm.choices[1]).wrap \in {"prose", "empty"}

\* C10: when the answer of the model holds no parseable JSON (plain prose),
\* reason_llm returns the fallback payload with state_updates.trust_delta
\* -0.1 and with telemetry.llm_parse_error = true.
ProseAnswerMarkedAsParseError ==
    (call.fn = "reason_llm" /\ ret # NotSet /\ AnswerWithoutJSON(call.llm))
        => /\ ret.state_updates["trust_delta"] = JNum(-10)
           /\ HasKey(ret.telemetry, "llm_parse_error")
           /\ ret.telemetry["llm_parse_error"] = TRUE

\* the answer text holds a valid JSON object inside a fenced block or
\* inside prose
AnswerWithWrappedObject(llm) ==
    /\ llm.status = "ok"
    /\ llm.choices # <<>>
    /\ MessageContent(llm.choices[1]).wrap
          \in {"fence_json", "fence_plain", "prose_json"}
    /\ MessageContent(llm.choices[1]).json.t = "dict"

WrappedObject(llm) == MessageContent(llm.choices[1]).json.v

\* C16: when the answer of the model holds a valid JSON object in a ```json
\* fenced block, in a plain ``` fenced block or inside prose, reason_llm
\* returns the payload parsed from that object and not the fallback
\* response.
WrappedObjectIsParsed ==
    (/\ call.fn = "reason_llm"
     /\ ret # NotSet
     /\ AnswerWithWrappedObject(call.llm))
        => /\ ret # _create_fallback_response(cases.case_truth, [trust |-> 60])
           /\ RepairResult(WrappedObject(call.llm)).ok
           /\ ret = RepairResult(WrappedObject(call.llm)).value

----------------------------------------------------------------------------
(* generate_llm and reason_llm called on their own, on any outcome of the
   LLM client *)

ContentPlans ==
    {<<>>, <<"p1">>, <<"p1", "p2", "p3">>, <<NonStringItem>>,
     <<"p1", NonStringItem>>, <<"p1", "p2", NonStringItem>>}

StyleChoices ==
    {EmptyDict, [tempo |-> "calm", length |-> "short"],
     [tempo |-> "medium", length |-> "long"]}

GenerateAnswers ==
    GenerateLLM
    \cup {[status |-> "ok", choices |-> <<>>],
          [status |-> "ok", choices |-> <<[content |-> [sentences |-> 4]]>>]}

GenerateLLMCalls ==
    {[fn |-> "generate_llm", content_plan |-> cp, style_directives |-> sd,
      llm |-> llm] :
        cp \in ContentPlans, sd \in StyleChoices, llm \in GenerateAnswers}

CallGenerateLLM ==
    /\ call.fn = "generate_llm"
    /\ ret = NotSet
    /\ ret' = generate_llm(call.content_plan, call.style_directives,
                           "MDD", call.llm)
    /\ UNCHANGED <<call, pipeVars>>

InitLLMNodes ==
    /\ PipeInit
    /\ cases = CaseA
    /\ ret = NotSet
    /\ call \in ReasonLLMCalls \cup GenerateLLMCalls

SpecLLMNodes == InitLLMNodes /\ [][CallReasonLLM \/ CallGenerateLLM]_vars

\* C11: for every exception the LLM client raises during a reasoning or a
\* generation call, reason_llm returns its fixed fallback payload and
\* generate_llm returns its fallback text; no exception leaves either
\* function.
ClientFailureGivesFallback ==
    /\ (call.fn = "reason_llm" /\ ret # NotSet /\ call.llm.status = "raise")
          => ret = _create_fallback_response(cases.case_truth,
                                             [trust |-> 60])
    /\ (call.fn = "generate_llm" /\ ret # NotSet
        /\ call.llm.status = "raise")
          => /\ ret.status = "ok"
             /\ ret.value.kind \in {"text", "join"}

----------------------------------------------------------------------------
(* validate.py: validation and repair of a reasoning payload.  A payload is
   a JSON value as json.loads builds it: besides the tagged values above, a
   number can be NaN, Infinity or -Infinity ([t |-> "nan"], [t |-> "inf"],
   [t |-> "ninf"]), an integer too large for a float ([t |-> "bigint"]), or
   a boolean. *)

JBool(b) == [t |-> "bool", v |-> b]
JNaN == [t |-> "nan"]
JInf == [t |-> "inf"]
JNegInf == [t |-> "ninf"]
JBigInt == [t |-> "bigint"]

Max(a, b) == IF a >= b THEN a ELSE b

\* str.strip() on the strings of the model
Strip(str) ==
    CASE str = " a " -> "a"
      [] str = "  " -> ""
      [] str = " 0.5 " -> "0.5"
      [] OTHER -> str

\* float(x) on a string
ParseFloat(str) ==
    CASE Strip(str) = "0.5" -> [status |-> "ok", value |-> JNum(50)]
      [] Strip(str) = "-3" -> [status |-> "ok", value |-> JNum(-300)]
      [] Strip(str) = "nan" -> [status |-> "ok", value |-> JNaN]
      [] Strip(str) = "inf" -> [status |-> "ok", value |-> JInf]
      [] Strip(str) = "-inf" -> [status |-> "ok", value |-> JNegInf]
      [] OTHER -> [status |-> "raise", exc |-> "ValueError"]

\* float(x): a float keeps its value, True is 1.0, a string is parsed, an
\* integer beyond the range of a float raises OverflowError, anything else
\* raises TypeError
Float(x) ==
    CASE x.t \in {"num", "nan", "inf", "ninf"} ->
             [status |-> "ok", value |-> x]
      [] x.t = "bool" ->
             [status |-> "ok", value |-> JNum(IF x.v THEN 100 ELSE 0)]
      [] x.t = "str" -> ParseFloat(x.v)
      [] x.t = "bigint" -> [status |-> "raise", exc |-> "OverflowError"]
      [] OTHER -> [status |-> "raise", exc |-> "TypeError"]

\* a delta that is converted but not clamped
NormalizeDeltaUnclamped(state_updates, key, lo, hi) ==
    LET converted == Float(DictGet(state_updates, key, JNum(0)))
    IN  [status |-> "ok",
         value |-> IF converted.status = "ok" /\ converted.value.t = "num"
                   THEN converted.value.v ELSE 0,
         warnings |-> <<>>]

\* lines 147-164 and 166-183: one delta, converted and clamped to [lo, hi];
\* only ValueError and TypeError are caught
NormalizeDelta(state_updates, key, lo, hi) ==
    LET raw == DictGet(state_updates, key, JNum(0))
        converted == Float(raw)
    IN  IF converted.status = "raise"
        THEN IF converted.exc \in {"ValueError", "TypeError"}
             THEN [status |-> "ok", value |-> Max(lo, Min(hi, 0)),
                   warnings |-> <<key \o " was not numeric">>]
             ELSE converted
        ELSE IF converted.value.t \in {"nan", "inf", "ninf"}
        THEN [status |-> "ok", value |-> Max(lo, Min(hi, 0)),
              warnings |-> <<key \o " was NaN/inf">>]
        ELSE LET original == converted.value.v
                 clamped == Max(lo, Min(hi, original))
             IN  [status |-> "ok", value |-> clamped,
                  warnings |-> IF clamped # original
                               THEN <<key \o " clamped">> ELSE <<>>]

TrustDeltaMin == -20
TrustDeltaMax == 20
FatigueDeltaMin == 0
FatigueDeltaMax == 20

\* lines 131-186
_normalize_state_updates(payload) ==
    LET given == DictGet(payload, "state_updates", JDict(EmptyDict))
        is_dict == given.t = "dict"
        state_updates == IF is_dict THEN given.v ELSE EmptyDict
        w0 == IF is_dict THEN <<>> ELSE <<"state_updates was not a dict">>
        trust == NormalizeDelta(state_updates, "trust_delta",
                                TrustDeltaMin, TrustDeltaMax)
        fatigue == NormalizeDelta(state_updates, "fatigue_delta",
                                  FatigueDeltaMin, FatigueDeltaMax)
    IN  IF trust.status = "raise" THEN trust
        ELSE IF fatigue.status = "raise" THEN fatigue
        ELSE [status |-> "ok",
              payload |->
                  DictSet(payload, "state_updates",
                          JDict([trust_delta |-> JNum(trust.value),
                                 fatigue_delta |-> JNum(fatigue.value)])),
              warnings |-> w0 \o trust.warnings \o fatigue.warnings]

RECURSIVE PlanItems(_, _, _)
\* lines 68-77: the loop over the items, stopping at two valid items
PlanItems(items, plan, warnings) ==
    IF items = <<>> THEN [plan |-> plan, warnings |-> warnings]
    ELSE LET item == Head(items)
         IN  IF item.t = "str"
             THEN IF Strip(item.v) = ""
                  THEN PlanItems(Tail(items), plan, warnings)
                  ELSE IF Len(plan) + 1 >= 2
                  THEN [plan |-> Append(plan, Strip(item.v)),
                        warnings |-> warnings]
                  ELSE PlanItems(Tail(items), Append(plan, Strip(item.v)),
                                 warnings)
             ELSE PlanItems(Tail(items), plan,
                            Append(warnings, "content_plan item was not string"))

RECURSIVE CandidateSnippets(_)
\* lines 81-88: the texts of the candidates that are dicts with a text
CandidateSnippets(candidates) ==
    IF candidates = <<>> THEN <<>>
    ELSE LET candidate == Head(candidates)
             usable == /\ candidate.t = "dict"
                       /\ HasKey(candidate.v, "text")
                       /\ candidate.v["text"].t = "str"
                       /\ Strip(candidate.v["text"].v) # ""
         IN  (IF usable THEN <<Strip(candidate.v["text"].v)>> ELSE <<>>)
             \o CandidateSnippets(Tail(candidates))

\* lines 52-98; line 95 assigns into whatever the payload holds under
\* "telemetry"
_normalize_content_plan(payload, candidates) ==
    LET given == DictGet(payload, "content_plan", JList(<<>>))
        items == IF given.t = "list" THEN given.v
                 ELSE IF given.t = "str" THEN <<given>> ELSE <<>>
        w0 == IF given.t \in {"list", "str"} THEN <<>>
              ELSE <<"content_plan was not a list">>
        looped == PlanItems(items, <<>>, w0)
        generated == IF looped.plan = <<>>
                     THEN CandidateSnippets(Take(candidates, 2))
                     ELSE <<>>
    IN  IF generated = <<>>
        THEN [status |-> "ok",
              payload |-> DictSet(payload, "content_plan",
                                  JList(looped.plan)),
              warnings |-> looped.warnings]
        ELSE IF HasKey(payload, "telemetry")
                /\ payload["telemetry"].t # "dict"
        THEN [status |-> "raise", exc |-> "TypeError"]
        ELSE LET telemetry == DictGet(payload, "telemetry", JDict(EmptyDict))
                 flagged == JDict(DictSet(telemetry.v, "llm_empty_plan",
                                          JBool(TRUE)))
             IN  [status |-> "ok",
                  payload |-> DictSet(DictSet(payload, "telemetry", flagged),
                                      "content_plan", JList(generated)),
                  warnings |-> Append(looped.warnings,
                                      "content_plan was empty")]

\* hash(x) succeeds: lists and dicts are unhashable
Hashable(x) == x.t \notin {"list", "dict"}

\* lines 114-118 and 121-125: "value not in {...}" hashes the value
NormalizeChoice(style_directives, key, allowed, default) ==
    LET value == DictGet(style_directives, key, JStr(default))
    IN  IF ~Hashable(value) THEN [status |-> "raise", exc |-> "TypeError"]
        ELSE IF value.t = "str" /\ value.v \in allowed
        THEN [status |-> "ok", value |-> value.v, warnings |-> <<>>]
        ELSE [status |-> "ok", value |-> default,
              warnings |-> <<key \o " invalid">>]

\* lines 101-128
_normalize_style_directives(payload) ==
    LET given == DictGet(payload, "style_directives", JDict(EmptyDict))
        is_dict == given.t = "dict"
        style_directives == IF is_dict THEN given.v ELSE EmptyDict
        w0 == IF is_dict THEN <<>> ELSE <<"style_directives was not a dict">>
        tempo == NormalizeChoice(style_directives, "tempo",
                                 {"slow", "medium", "fast"}, "medium")
        length == NormalizeChoice(style_directives, "length",
                                  {"short", "medium", "long"}, "short")
    IN  IF tempo.status = "raise" THEN tempo
        ELSE IF length.status = "raise" THEN length
        ELSE [status |-> "ok",
              payload |-> DictSet(payload, "style_directives",
                                  JDict([tempo |-> JStr(tempo.value),
                                         length |-> JStr(length.value)])),
              warnings |-> w0 \o tempo.warnings \o length.warnings]

\* the strings among the items of a list
JStrs(items) == {items[i] : i \in {j \in DOMAIN items : items[j].t = "str"}}

\* lines 207-212: the string ids of the candidates that are dicts
ValidIds(candidates) ==
    {candidates[i].v["id"].v :
        i \in {j \in DOMAIN candidates :
                  /\ candidates[j].t = "dict"
                  /\ HasKey(candidates[j].v, "id")
                  /\ candidates[j].v["id"].t = "str"}}

RECURSIVE ChosenItems(_, _, _, _)
\* lines 221-229: keep the valid ids, once each, in their order
ChosenItems(chosen_ids, valid_ids, ids, warnings) ==
    IF chosen_ids = <<>> THEN [ids |-> ids, warnings |-> warnings]
    ELSE LET chosen_id == Head(chosen_ids)
         IN  IF chosen_id.t = "str" /\ chosen_id.v \in valid_ids
             THEN ChosenItems(Tail(chosen_ids), valid_ids,
                              IF chosen_id.v \in Range(ids) THEN ids
                              ELSE Append(ids, chosen_id.v),
                              warnings)
             ELSE ChosenItems(Tail(chosen_ids), valid_ids, ids,
                              Append(warnings, "chosen_id removed"))

\* a telemetry whose chosen ids are not checked against the candidates
_normalize_telemetry_unfiltered(payload, candidates) ==
    LET given == DictGet(payload, "telemetry", JDict(EmptyDict))
        telemetry == IF given.t = "dict" THEN given.v ELSE EmptyDict
        chosen == DictGet(telemetry, "chosen_ids", JList(<<>>))
        items == IF chosen.t = "list" THEN chosen.v ELSE <<>>
        ids == ChosenItems(items, {x.v : x \in JStrs(items)}, <<>>, <<>>).ids
    IN  {[status |-> "ok",
          payload |-> DictSet(payload, "telemetry",
                              JDict(DictSet(telemetry, "chosen_ids",
                                            JList(ids)))),
          warnings |-> <<>>]}

\* lines 189-239; list(valid_ids) lists a set, in any order
_normalize_telemetry(payload, candidates) ==
    LET given == DictGet(payload, "telemetry", JDict(EmptyDict))
        is_dict == given.t = "dict"
        telemetry == IF is_dict THEN given.v ELSE EmptyDict
        w0 == IF is_dict THEN <<>> ELSE <<"telemetry was not a dict">>
        valid_ids == ValidIds(candidates)
        chosen == DictGet(telemetry, "chosen_ids", JList(<<>>))
        w1 == IF chosen.t = "list" THEN w0
              ELSE Append(w0, "chosen_ids was not a list")
        looped == ChosenItems(IF chosen.t = "list" THEN chosen.v ELSE <<>>,
                              valid_ids, <<>>, w1)
        substitute == looped.ids = <<>> /\ valid_ids # {}
        w2 == IF substitute THEN Append(looped.warnings, "chosen_ids was empty")
              ELSE looped.warnings
    IN  {[status |-> "ok",
          payload |-> DictSet(payload, "telemetry",
                              JDict(DictSet(telemetry, "chosen_ids",
                                            JList(normalized_ids)))),
          warnings |-> w2] :
            normalized_ids \in
                IF substitute
                THEN InjSeqs(valid_ids, Cardinality(valid_ids))
                ELSE {looped.ids}}

\* lines 43-49: the warnings are stored in the telemetry
WithWarnings(payload, warnings) ==
    IF warnings = <<>> THEN payload
    ELSE DictSet(payload, "telemetry",
                 JDict(DictSet(payload["telemetry"].v, "validation_warnings",
                               JList(warnings))))

\* lines 10-49: the outcomes of validate_reason_payload, each either a pair
\* (payload, warnings) or an exception
validate_reason_payload(payload, candidates) ==
    LET p0 == IF payload.t = "dict" THEN payload.v ELSE EmptyDict
        c0 == IF candidates.t = "list" THEN candidates.v ELSE <<>>
        plan == _normalize_content_plan(p0, c0)
    IN  IF plan.status = "raise" THEN {plan}
        ELSE LET style == _normalize_style_directives(plan.payload)
             IN  IF style.status = "raise" THEN {style}
                 ELSE LET state == _normalize_state_updates(style.payload)
                      IN  IF state.status = "raise" THEN {state}
                          ELSE {[status |-> "ok",
                                 payload |->
                                     WithWarnings(t.payload,
                                                  plan.warnings
                                                  \o style.warnings
                                                  \o state.warnings
                                                  \o t.warnings),
                                 warnings |-> plan.warnings \o style.warnings
                                              \o state.warnings
                                              \o t.warnings] :
                                   t \in _normalize_telemetry(state.payload,
                                                              c0)}

----------------------------------------------------------------------------
(* validate_reason_payload called on its own, on payloads and candidates of
   any JSON type *)

CandA == JDict([id |-> JStr("a"), text |-> JStr(" a ")])
CandB == JDict([id |-> JStr("b")])
CandOdd == JDict([id |-> JNum(3), text |-> JNum(5)])

\* the values below are listed in tuples: values of different JSON types
\* are never members of one set
ValidateCandidates ==
    <<JNull, JList(<<>>), JList(<<CandA>>), JList(<<CandA, CandB, CandA>>),
      JList(<<JStr("x"), CandOdd, CandB>>)>>

ContentPlanValues ==
    << <<>>, <<JStr(" a ")>>, <<JNull>>, <<JList(<<>>)>>,
       <<JList(<<JStr("  "), JNum(1), JStr(" a "), JStr("b"), JStr("c")>>)>> >>

StyleValues ==
    << <<>>, <<JStr("x")>>, <<JDict(EmptyDict)>>,
       <<JDict([tempo |-> JStr("fast"), length |-> JStr("huge")])>>,
       <<JDict([tempo |-> JList(<<JStr("fast")>>)])>>,
       <<JDict([tempo |-> JNull, length |-> JDict(EmptyDict)])>> >>

StateUpdateDicts ==
    <<EmptyDict,
     [trust_delta |-> JNum(900), fatigue_delta |-> JNum(-500)],
     [trust_delta |-> JNum(-900), fatigue_delta |-> JNum(500)],
     [trust_delta |-> JNum(5), fatigue_delta |-> JNum(10)],
     [trust_delta |-> JNaN, fatigue_delta |-> JInf],
     [trust_delta |-> JNegInf, fatigue_delta |-> JStr("nan")],
     [trust_delta |-> JStr(" 0.5 "), fatigue_delta |-> JStr("abc")],
     [trust_delta |-> JBool(TRUE), fatigue_delta |-> JNull],
     [trust_delta |-> JList(<<>>), fatigue_delta |-> JStr("-3")],
     [fatigue_delta |-> JBigInt]>>

StateUpdateValues ==
    << <<>>, <<JList(<<>>)>> >>
    \o [i \in DOMAIN StateUpdateDicts |-> <<JDict(StateUpdateDicts[i])>>]

TelemetryValues ==
    << <<>>, <<JStr("x")>>, <<JDict(EmptyDict)>>,
       <<JDict([chosen_ids |-> JStr("a")])>>,
       <<JDict([chosen_ids |-> JList(<<>>), latency |-> JNum(1)])>>,
       <<JDict([chosen_ids |->
                   JList(<<JStr("b"), JStr("a"), JStr("b"), JStr("z"),
                           JList(<<JStr("a")>>), JNull, JNum(3)>>)])>> >>

\* payloads that are not objects
OtherPayloads == <<JStr("x"), JNull, JList(<<>>)>>

PayloadOf(cp, sd, su, tm) ==
    JDict(WithOpt(WithOpt(WithOpt(WithOpt(EmptyDict, "content_plan", cp),
                                  "style_directives", sd),
                          "state_updates", su),
                  "telemetry", tm))

ValidateCall(payload, candidates) ==
    [fn |-> "validate_reason_payload", payload |-> payload,
     candidates |-> candidates]

InitValidate ==
    /\ PipeInit
    /\ cases = CaseA
    /\ ret = NotSet
    /\ \E c \in DOMAIN ValidateCandidates :
          \/ \E p \in DOMAIN OtherPayloads :
                call = ValidateCall(OtherPayloads[p], ValidateCandidates[c])
          \/ \E cp \in DOMAIN ContentPlanValues, sd \in DOMAIN StyleValues,
                su \in DOMAIN StateUpdateValues,
                tm \in DOMAIN TelemetryValues :
                call = ValidateCall(PayloadOf(ContentPlanValues[cp],
                                              StyleValues[sd],
                                              StateUpdateValues[su],
                                              TelemetryValues[tm]),
                                    ValidateCandidates[c])

CallValidate ==
    /\ call.fn = "validate_reason_payload"
    /\ ret = NotSet
    /\ ret' \in validate_reason_payload(call.payload, call.candidates)
    /\ UNCHANGED <<call, pipeVars>>

SpecValidate == InitValidate /\ [][CallValidate]_vars

\* validate_reason_payload has returned a pair
Validated == call.fn = "validate_reason_payload" /\ ret # NotSet

\* C12: validate_reason_payload never raises: for every payload and every
\* candidates value it returns a pair (payload, warnings).
ValidateNeverRaises == Validated => ret.status = "ok"

\* the payload that validate_reason_payload returned
Returned == Validated /\ ret.status = "ok"

ReturnedStateUpdates == ret.payload["state_updates"].v

GivenStateUpdates ==
    IF /\ call.payload.t = "dict"
       /\ HasKey(call.payload.v, "state_updates")
       /\ call.payload.v["state_updates"].t = "dict"
    THEN call.payload.v["state_updates"].v
    ELSE EmptyDict

\* C13: the payload returned by validate_reason_payload has
\* state_updates.trust_delta a finite number in [-0.2, 0.2] and
\* state_updates.fatigue_delta a finite number in [0.0, 0.2], whatever the
\* deltas of the input were.
ReturnedDeltasInRange ==
    Returned =>
        /\ ReturnedStateUpdates["trust_delta"].t = "num"
        /\ ReturnedStateUpdates["trust_delta"].v \in -20..20
        /\ ReturnedStateUpdates["fatigue_delta"].t = "num"
        /\ ReturnedStateUpdates["fatigue_delta"].v \in 0..20

\* C13: a returned payload whose input had trust_delta -inf and
\* fatigue_delta "nan", or trust_delta 9.0 and fatigue_delta -5.0
ReturnedDeltasInRangeWitness ==
    /\ Returned
    /\ HasKey(GivenStateUpdates, "trust_delta")
    /\ HasKey(GivenStateUpdates, "fatigue_delta")
    /\ \/ /\ GivenStateUpdates["trust_delta"].t = "ninf"
          /\ GivenStateUpdates["fatigue_delta"].t = "str"
          /\ ReturnedStateUpdates["trust_delta"].v = 0
       \/ /\ GivenStateUpdates["trust_delta"].t = "num"
          /\ GivenStateUpdates["trust_delta"].v = 900
          /\ ReturnedStateUpdates["trust_delta"].v = 20
          /\ ReturnedStateUpdates["fatigue_delta"].v = 0

ReturnedChosenIds == ret.payload["telemetry"].v["chosen_ids"].v

SuppliedCandidates ==
    IF call.candidates.t = "list" THEN call.candidates.v ELSE <<>>

\* some supplied candidate has this id
IsCandidateId(id) ==
    \E j \in DOMAIN SuppliedCandidates :
        /\ SuppliedCandidates[j].t = "dict"
        /\ HasKey(SuppliedCandidates[j].v, "id")
        /\ SuppliedCandidates[j].v["id"].t = "str"
        /\ SuppliedCandidates[j].v["id"].v = id

\* C14: telemetry.chosen_ids of the payload returned by
\* validate_reason_payload holds only ids of supplied candidates and holds
\* no id more than once, also when an empty list was replaced by the
\* candidate ids.
ChosenIdsFromCandidates ==
    Returned =>
        /\ \A i \in DOMAIN ReturnedChosenIds :
              IsCandidateId(ReturnedChosenIds[i])
        /\ \A i, j \in DOMAIN ReturnedChosenIds :
              i # j => ReturnedChosenIds[i] # ReturnedChosenIds[j]

\* C14: an empty list was replaced by the ids of two candidates, or a list
\* with unknown and repeated ids was filtered down to two ids
ChosenIdsFromCandidatesWitness ==
    /\ Returned
    /\ Len(ReturnedChosenIds) = 2
    /\ \/ "chosen_ids was empty" \in Range(ret.warnings)
       \/ "chosen_id removed" \in Range(ret.warnings)

----------------------------------------------------------------------------
(* json_parse.py: an answer text is a sequence of segments, one per line
   group: a ```json fence, a plain ``` fence, or unfenced text, each with a
   body.  A body stands for one concrete string. *)

\* body              stands for
\*  "object"          {"a": 1}
\*  "trailing"        {"a": 1,}
\*  "quoted"          {'a': 1}
\*  "garbage"         {a b}
\*  "array"           [1]
\*  "words"           hello
Bodies == {"object", "trailing", "quoted", "garbage", "array", "words"}
Wraps == {"json", "plain", "none"}
Segments == [wrap : Wraps, body : Bodies]

\* the body holds one balanced {...}
Braced(body) == body \in {"object", "trailing", "quoted", "garbage"}

\* json.loads(candidate): "dict", "value" (not a dict) or "error"
json_loads_kind(body) ==
    CASE body = "object" -> "dict"
      [] body = "array" -> "value"
      [] OTHER -> "error"

\* json5.loads(candidate): comments, trailing commas and single quotes pass
json5_loads_kind(body) ==
    CASE body \in {"object", "trailing", "quoted"} -> "dict"
      [] body = "array" -> "value"
      [] OTHER -> "error"

\* lines 107-109: trailing commas and // comments removed by regex
cleanup(body) == IF body = "trailing" THEN "object" ELSE body

\* lines 26-28: the bodies of the ```json fences
json_matches(text) ==
    SelectSeq([i \in DOMAIN text |-> text[i]], LAMBDA x : x.wrap = "json")

\* the ``` markers of the text: the opening and closing one of each fence
RECURSIVE FenceMarkers(_, _)
FenceMarkers(text, i) ==
    IF i > Len(text) THEN <<>>
    ELSE (CASE text[i].wrap = "json" ->
                  <<[m |-> "open_json", seg |-> i], [m |-> "close", seg |-> i]>>
            [] text[i].wrap = "plain" ->
                  <<[m |-> "open", seg |-> i], [m |-> "close", seg |-> i]>>
            [] OTHER -> <<>>)
         \o FenceMarkers(text, i + 1)

\* the text between the closing marker of segment i and the opening marker
\* of segment j: one body, or text that is no JSON of any kind
Between(text, i, j) ==
    IF j = i + 2 THEN text[i + 1].body ELSE "garbage"

RECURSIVE GeneralMatches(_, _)
\* lines 31-33: ```[^j\n]*\n(.*?)\n``` matched from left to right.  An
\* opening ```json cannot start a match; any other marker starts one and
\* pairs with the next marker, so the closing marker of a fence pairs with
\* the opening marker of the next fence and captures the text between them.
GeneralMatches(text, marks) ==
    IF marks = <<>> THEN <<>>
    ELSE IF Head(marks).m = "open_json"
    THEN GeneralMatches(text, Tail(marks))
    ELSE IF Head(marks).m = "open"
    THEN <<text[Head(marks).seg].body>>
         \o GeneralMatches(text, Tail(Tail(marks)))
    ELSE IF Len(marks) = 1 THEN <<>>
    ELSE IF marks[2].seg = Head(marks).seg + 1
    THEN <<"garbage">> \o GeneralMatches(text, SubSeq(marks, 4, Len(marks)))
    ELSE <<Between(text, Head(marks).seg, marks[2].seg)>>
         \o GeneralMatches(text, Tail(Tail(marks)))

\* lines 36-57: the balanced {...} substrings of the whole text
find_balanced_braces(text) ==
    SelectSeq([i \in DOMAIN text |-> text[i]], LAMBDA x : Braced(x.body))

Bodies_of(segs) == [i \in DOMAIN segs |-> segs[i].body]

\* lines 18-59
extract_json_blocks(text) ==
    Bodies_of(json_matches(text))
    \o GeneralMatches(text, FenceMarkers(text, 1))
    \o Bodies_of(find_balanced_braces(text))

\* the first candidate that a parser turns into a dict, 0 if none; kinds
\* holds what the parser makes of each candidate
FirstDict(kinds) ==
    IF \E i \in DOMAIN kinds : kinds[i] = "dict"
    THEN CHOOSE i \in DOMAIN kinds :
             /\ kinds[i] = "dict"
             /\ \A j \in 1..(i - 1) : kinds[j] # "dict"
    ELSE 0

Parsed(strategy, i) ==
    [status |-> "ok", strategy |-> strategy, candidate |-> i]

\* lines 62-118; json5 is the module imported at lines 12-15, or None
parse_llm_json(text, json5) ==
    LET candidates == extract_json_blocks(text)
        strict == FirstDict([i \in DOMAIN candidates |->
                                json_loads_kind(candidates[i])])
        lenient == FirstDict([i \in DOMAIN candidates |->
                                 json5_loads_kind(candidates[i])])
    IN  IF candidates = <<>> THEN [status |-> "raise", exc |-> "ValueError"]
        ELSE IF strict # 0 THEN Parsed("strict", strict)
        ELSE IF json5 /\ lenient # 0 THEN Parsed("json5", lenient)
        ELSE IF json_loads_kind(cleanup(candidates[1])) = "dict"
        THEN Parsed("cleanup", 1)
        ELSE [status |-> "raise", exc |-> "ValueError"]

----------------------------------------------------------------------------
(* parse_llm_json called on its own; json5 is an optional import, present or
   absent in the running interpreter *)

InitParse ==
    /\ PipeInit
    /\ cases = CaseA
    /\ ret = NotSet
    /\ \E text \in SeqsUpTo(Segments, MaxSegments), json5 \in BOOLEAN :
          call = [fn |-> "parse_llm_json", text |-> text, json5 |-> json5]

CallParse ==
    /\ call.fn = "parse_llm_json"
    /\ ret = NotSet
    /\ ret' = parse_llm_json(call.text, call.json5)
    /\ UNCHANGED <<call, pipeVars>>

SpecParse == InitParse /\ [][CallParse]_vars

\* a candidate parses to an object under strict JSON, lenient JSON5, or
\* regex cleanup followed by strict JSON
ParsesUnderSomeStrategy(body) ==
    \/ json_loads_kind(body) = "dict"
    \/ json5_loads_kind(body) = "dict"
    \/ json_loads_kind(cleanup(body)) = "dict"

\* C15: parse_llm_json raises only when no candidate substring is found or
\* when every extracted candidate fails under every parse strategy: if any
\* candidate parses to an object under any strategy, an object is returned.
ParseRaisesOnlyWhenAllFail ==
    (call.fn = "parse_llm_json" /\ ret # NotSet /\ ret.status = "raise") =>
        \A i \in DOMAIN extract_json_blocks(call.text) :
            ~ParsesUnderSomeStrategy(extract_json_blocks(call.text)[i])

----------------------------------------------------------------------------
(* deepseek_client.py: one call of _make_chat_request under the tenacity
   decorator.  ret holds the retry state of the call: the number of the
   current attempt, the outcome of each attempt made, and where the call
   stands. *)

\* what the endpoint does with one POST /chat/completions
StatusCodes == {200, 400, 401, 403, 404, 422, 429, 500, 502, 503, 504}
TransportErrors == {"ReadTimeout", "ConnectError", "ConnectTimeout"}
ResponseBodies == {"no_choices", "reasoning", "text", "empty_text", "not_json"}

EndpointOutcomes ==
    {[kind |-> "response", status_code |-> c, body |-> "error"] :
        c \in StatusCodes \ {200}}
    \cup {[kind |-> "response", status_code |-> 200, body |-> b] :
             b \in ResponseBodies}
    \cup {[kind |-> "transport", exc |-> e] : e \in TransportErrors}

\* lines 96-121: one execution of the function body.  raise_for_status
\* raises HTTPStatusError on 4xx and 5xx, and both branches of the except
\* clause raise it again; response.json() raises on a body that is no JSON.
chat_request_body(endpoint) ==
    IF endpoint.kind = "transport"
    THEN [failed |-> TRUE, cls |-> endpoint.exc]
    ELSE IF endpoint.status_code >= 400
    THEN [failed |-> TRUE, cls |-> "HTTPStatusError",
          status_code |-> endpoint.status_code]
    ELSE IF endpoint.body = "not_json"
    THEN [failed |-> TRUE, cls |-> "JSONDecodeError"]
    ELSE [failed |-> FALSE, cls |-> "dict", result |-> endpoint.body]

\* lines 58-68: isinstance tests on the argument
_should_retry(exception) ==
    IF exception.cls = "ReadTimeout" THEN TRUE
    ELSE IF exception.cls = "HTTPStatusError"
    THEN exception.status_code = 429 \/ exception.status_code >= 500
    ELSE FALSE

\* line 71
stop_after_attempt(retry_state) == retry_state.attempt_number >= 3

\* the object tenacity hands to the callables of the decorator
RetryCallState(attempt_number, outcome) ==
    [cls |-> "RetryCallState", attempt_number |-> attempt_number,
     outcome |-> outcome]

\* a decision that retries after every attempt
retry_decision_always(retry_state) == "retry"

\* lines 70-77: what tenacity does after an attempt.  retry= is called with
\* the retry state; when it is false the outcome is returned or raised, else
\* stop= decides between RetryError and another attempt after the wait.
retry_decision(retry_state) ==
    IF ~_should_retry(retry_state)
    THEN IF retry_state.outcome.failed THEN "raise" ELSE "return"
    ELSE IF stop_after_attempt(retry_state) THEN "retry_error"
    ELSE "retry"

\* the keyword arguments of reasoning() and generate() in the two LLM nodes,
\* or none
ChatKwargs ==
    {EmptyDict, [temperature |-> 30, max_tokens |-> 1000],
     [temperature |-> 70, max_tokens |-> 200]}

ChatRequestInit ==
    [pc |-> "attempt", attempt_number |-> 1, outcomes |-> <<>>]

InitClient ==
    /\ PipeInit
    /\ cases = CaseA
    /\ call \in {[fn |-> "_make_chat_request", model |-> m, kwargs |-> k] :
                    m \in {"deepseek-reasoner", "deepseek-chat"},
                    k \in ChatKwargs}
    /\ ret = ChatRequestInit

\* the decorated function runs once
Attempt ==
    /\ call.fn = "_make_chat_request"
    /\ ret.pc = "attempt"
    /\ ret.attempt_number <= MaxAttempts
    /\ \E endpoint \in EndpointOutcomes :
          ret' = [ret EXCEPT !.pc = "decide",
                             !.outcomes =
                                 Append(@, chat_request_body(endpoint))]
    /\ UNCHANGED <<call, pipeVars>>

LastOutcome == ret.outcomes[Len(ret.outcomes)]

\* tenacity decides what follows the attempt
AfterAttempt ==
    /\ call.fn = "_make_chat_request"
    /\ ret.pc = "decide"
    /\ LET decision ==
               retry_decision(RetryCallState(ret.attempt_number, LastOutcome))
       IN  ret' = IF decision = "retry"
                  THEN [ret EXCEPT !.pc = "attempt",
                                   !.attempt_number = @ + 1]
                  ELSE [ret EXCEPT !.pc = decision]
    /\ UNCHANGED <<call, pipeVars>>

SpecClient == InitClient /\ [][Attempt \/ AfterAttempt]_vars

InChatRequest == call.fn = "_make_chat_request"

\* the failure is one the request is to be retried on
Retriable(outcome) ==
    /\ outcome.failed
    /\ \/ outcome.cls = "ReadTimeout"
       \/ /\ outcome.cls = "HTTPStatusError"
          /\ outcome.status_code = 429 \/ outcome.status_code >= 500

\* the failure is a 4xx status other than 429
OtherClientError(outcome) ==
    /\ outcome.failed
    /\ outcome.cls = "HTTPStatusError"
    /\ outcome.status_code < 500
    /\ outcome.status_code # 429

\* C17: within one call of the chat request, an attempt that fails with a
\* read timeout, HTTP 429 or HTTP 5xx is followed by another attempt as long
\* as fewer than 3 attempts have been made, and an attempt that fails with
\* any other 4xx status is never followed by another attempt.
RetriesOnTimeoutAnd5xxOnly ==
    InChatRequest =>
        /\ (/\ ret.pc \in {"raise", "return", "retry_error"}
            /\ Retriable(LastOutcome))
               => Len(ret.outcomes) >= 3
        /\ \A i \in 1..(Len(ret.outcomes) - 1) :
               ~OtherClientError(ret.outcomes[i])

\* C18: for every sequence of failures of the endpoint, a single call of the
\* chat request makes at most 3 HTTP attempts, and it goes on to a further
\* attempt only while fewer than 3 have been made.
AtMostThreeAttempts ==
    InChatRequest =>
        /\ Len(ret.outcomes) <= 3
        /\ ret.attempt_number <= 3

\* C18: the call has ended by raising after an attempt that failed
AtMostThreeAttemptsWitness ==
    /\ InChatRequest
    /\ ret.pc = "raise"
    /\ Len(ret.outcomes) >= 1
    /\ LastOutcome.failed

----------------------------------------------------------------------------
(* The case-level trajectory report: GET /report/case/{case_id}/trajectories
   (router.py) and compute_case_trajectories (metrics.py).  call holds the
   rows the handler reads: the trajectories of the case truth, the sessions
   whose sessions.case_id is the case, the session_links rows of the case,
   and the session_trajectories rows of every session. *)

\* a trajectory without steps and one with three steps
T0 == [id |-> "t0", name |-> "empty", steps |-> <<>>]

T3 ==
    [id |-> "t3", name |-> "triple",
     steps |-> <<[id |-> "a", name |-> "a", condition_tags |-> <<>>,
                  min_trust |-> 0],
                 [id |-> "b", name |-> "b", condition_tags |-> <<>>,
                  min_trust |-> 0],
                 [id |-> "c", name |-> "c", condition_tags |-> <<>>,
                  min_trust |-> 0]>>]

CaseTrajectoryChoices == {<<>>, <<T0>>, <<T1>>, <<T1, T2>>, <<T3>>}

ReportSessions == {"s1", "s2"}

\* the session_trajectories rows of one session: trajectory_id -> steps
ProgressChoices ==
    {EmptyDict,
     [t1 |-> <<"sleep">>],
     [t1 |-> <<"mood">>],
     [t1 |-> <<"sleep", "mood">>],
     [t1 |-> <<"sleep">>, t2 |-> <<"open">>],
     [t3 |-> <<"a">>],
     [t0 |-> <<"gone">>]}

\* round(x, 2) of num/den, in hundredths (ties to even)
Round2(num, den) ==
    LET q == (100 * num) \div den
        rem == (100 * num) % den
    IN  IF 2 * rem > den THEN q + 1
        ELSE IF 2 * rem < den THEN q
        ELSE IF q % 2 = 0 THEN q ELSE q + 1

\* the rows of session_trajectories of these sessions for one trajectory
ProgressRows(table, session_ids, trajectory_id) ==
    {table[sid][trajectory_id] :
        sid \in {x \in session_ids : HasKey(table[x], trajectory_id)}}

\* set().update(completed_steps) over the rows
StepsUnion(rows) == UNION {SeqToSet(steps) : steps \in rows}

TotalSteps(trajectories, trajectory_id) ==
    IF \E i \in DOMAIN trajectories : trajectories[i].id = trajectory_id
    THEN Len((CHOOSE t \in Range(trajectories) : t.id = trajectory_id).steps)
    ELSE 0

\* router.py lines 391-472: the items of the report, by trajectory id; an
\* item exists for each trajectory id found in a session_trajectories row of
\* a linked session
get_case_trajectory_report(trajectories, links, table) ==
    LET aggregated == {tid \in UNION {DOMAIN table[sid] : sid \in links} : TRUE}
    IN  [case_id |-> "case",
         sessions |-> links,
         trajectories |->
             [tid \in aggregated |->
                 LET union == StepsUnion(ProgressRows(table, links, tid))
                     total_steps == TotalSteps(trajectories, tid)
                 IN  [completed_steps_union |-> union,
                      coverage |-> IF total_steps > 0
                                   THEN Round2(Cardinality(union), total_steps)
                                   ELSE 0,
                      exact |-> FALSE]]]

\* metrics.py lines 195-268: an item for every trajectory of the case truth,
\* over the sessions whose case_id is the case; the coverage is not rounded
\* (kept as the pair of its numerator and denominator)
compute_case_trajectories(trajectories, case_sessions, table) ==
    [case_id |-> "case",
     sessions |-> case_sessions,
     trajectories |->
         IF case_sessions = {} THEN EmptyDict
         ELSE [tid \in {trajectories[i].id : i \in DOMAIN trajectories} |->
                  LET union == StepsUnion(ProgressRows(table, case_sessions,
                                                       tid))
                      total_steps == TotalSteps(trajectories, tid)
                  IN  [completed_steps_union |-> union,
                       coverage |-> IF total_steps > 0
                                    THEN <<Cardinality(union), total_steps>>
                                    ELSE <<0, 1>>,
                       exact |-> TRUE]]]

InitCaseReport ==
    /\ PipeInit
    /\ cases = CaseA
    /\ ret = NotSet
    /\ call \in {[fn |-> f, trajectories |-> tr, case_sessions |-> cs,
                  links |-> ln, table |-> tb] :
                    f \in {"get_case_trajectory_report",
                           "compute_case_trajectories"},
                    tr \in CaseTrajectoryChoices,
                    cs \in SUBSET ReportSessions,
                    ln \in SUBSET ReportSessions,
                    tb \in [ReportSessions -> ProgressChoices]}

CallCaseReport ==
    /\ call.fn = "get_case_trajectory_report"
    /\ ret = NotSet
    /\ ret' = get_case_trajectory_report(call.trajectories, call.links,
                                         call.table)
    /\ UNCHANGED <<call, pipeVars>>

CallComputeCaseTrajectories ==
    /\ call.fn = "compute_case_trajectories"
    /\ ret = NotSet
    /\ ret' = compute_case_trajectories(call.trajectories, call.case_sessions,
                                        call.table)
    /\ UNCHANGED <<call, pipeVars>>

SpecCaseReport ==
    InitCaseReport /\ [][CallCaseReport \/ CallComputeCaseTrajectories]_vars

\* the report of the endpoint has been built
CaseReported == call.fn = "get_case_trajectory_report" /\ ret # NotSet

\* C21: for each trajectory of the case the report's completed_steps_union
\* is the union of the completed steps of all sessions linked to the case,
\* and coverage is |union| / |trajectory.steps| (0.0 without steps).
CaseReportUnionAndCoverage ==
    CaseReported =>
        \A i \in DOMAIN call.trajectories :
            LET tid == call.trajectories[i].id
                union == StepsUnion(ProgressRows(call.table, call.links, tid))
                total == Len(call.trajectories[i].steps)
            IN  /\ tid \in DOMAIN ret.trajectories
                /\ ret.trajectories[tid].completed_steps_union = union
                /\ IF total = 0 THEN ret.trajectories[tid].coverage = 0
                   ELSE ret.trajectories[tid].coverage * total
                            = 100 * Cardinality(union)

----------------------------------------------------------------------------
(* guard on Python objects: the reasoner output lives in a heap of mutable  *)
(* dicts and lists, so that a write through an alias is visible             *)

\* heap objects; an item of a dict or list is the address of another object
Scalar(v) == [kind |-> "scalar", v |-> v]
ListObj(elems) == [kind |-> "list", elems |-> elems]
DictObj(items) == [kind |-> "dict", items |-> items]

\* address of None
NoneRef == 0

\* the reasoner output of test_guard_preserves_other_fields, rooted at 1
FullHeap ==
    <<DictObj([content_plan |-> 2, distortions_plan |-> 5,
               style_directives |-> 8, state_updates |-> 12,
               telemetry |-> 15]),
      ListObj(<<3, 4>>), Scalar("Original content"), Scalar("More content"),
      ListObj(<<6>>), DictObj([type |-> 7]), Scalar("cognitive"),
      DictObj([tempo |-> 9, length |-> 10, register |-> 11]),
      Scalar("fast"), Scalar("long"), Scalar("informal"),
      DictObj([trust_delta |-> 13, fatigue_delta |-> 14]),
      Scalar("0.05"), Scalar("-0.01"),
      DictObj([chosen_ids |-> 16]), ListObj(<<17>>), Scalar("frag-1")>>

\* reasoner outputs as heaps whose every object lies under the root 1
ReasonOutputHeaps ==
    {<<>>,
     <<DictObj(EmptyDict)>>,
     FullHeap,
     <<DictObj([content_plan |-> 2]), ListObj(<<3>>), Scalar("p1")>>,
     <<DictObj([style_directives |-> 2]), DictObj(EmptyDict)>>,
     <<DictObj([style_directives |-> 2, telemetry |-> 4]),
       DictObj([length |-> 3]), Scalar("long"), DictObj(EmptyDict)>>,
     <<DictObj([content_plan |-> 2, style_directives |-> 3]),
       ListObj(<<>>), Scalar("None")>>,
     <<DictObj([content_plan |-> 2, style_directives |-> 3]),
       ListObj(<<>>), ListObj(<<4>>), Scalar("fast")>>,
     <<DictObj([state_updates |-> 2]), DictObj([trust_delta |-> 3]),
       Scalar("0.05")>>}

Alloc(heap, obj) == Append(heap, obj)

\* d[k] = v on the dict stored at address d
SetItem(heap, dict, k, v) ==
    [heap EXCEPT ![dict] = DictObj(DictSet(heap[dict].items, k, v))]

\* copy.deepcopy: every dict and list under obj is copied to a new address
\* (address + Len(heap)); immutable scalars are shared.
\* copy.copy: a new top-level object sharing the nested ones
shallow_copy(heap, obj) ==
    [heap |-> Alloc(heap, heap[obj]), obj |-> Len(heap) + 1]

deepcopy(heap, obj) ==
    LET k == Len(heap)
        Moved(a) == IF heap[a].kind = "scalar" THEN a ELSE a + k
        CopyOf(o) ==
            CASE o.kind = "scalar" -> o
              [] o.kind = "list" ->
                    ListObj([i \in DOMAIN o.elems |-> Moved(o.elems[i])])
              [] o.kind = "dict" ->
                    DictObj([key \in DOMAIN o.items |-> Moved(o.items[key])])
    IN  [heap |-> heap \o [j \in 1..k |-> CopyOf(heap[j])],
         obj |-> Moved(obj)]

\* bool(obj) for None and dicts
TruthyRef(heap, obj) ==
    obj # NoneRef /\ (heap[obj].kind = "dict" => DOMAIN heap[obj].items # {})

guard_objects(heap, reason_output, policies, risk_flags) ==
    LET copied == IF TruthyRef(heap, reason_output)
                  THEN deepcopy(heap, reason_output)
                  ELSE [heap |-> Alloc(heap, DictObj(EmptyDict)),
                        obj |-> Len(heap) + 1]
        safe_output == copied.obj
        h0 == copied.heap
    IN  IF risk_flags # <<>>
        THEN LET h1 == Alloc(Alloc(h0, Scalar(SafetyLiteral)),
                             ListObj(<<Len(h0) + 1>>))
                 h2 == SetItem(h1, safe_output, "content_plan", Len(h1))
                 h3 == IF HasKey(h2[safe_output].items, "style_directives")
                       THEN h2
                       ELSE SetItem(Alloc(h2, DictObj(EmptyDict)), safe_output,
                                    "style_directives", Len(h2) + 1)
                 style == h3[safe_output].items["style_directives"]
             IN  IF h3[style].kind = "dict"
                 THEN [status |-> "ok",
                       heap |-> SetItem(Alloc(h3, Scalar("calm")), style,
                                        "tempo", Len(h3) + 1),
                       safe_output |-> safe_output,
                       risk_status |-> "acute"]
                 ELSE [status |-> "raise", exc |-> "TypeError", heap |-> h3]
        ELSE [status |-> "ok", heap |-> h0, safe_output |-> safe_output,
              risk_status |-> "none"]

InitGuardObjects ==
    /\ PipeInit
    /\ cases = CaseA
    /\ ret = NotSet
    /\ call \in {[fn |-> "guard_objects", heap |-> h,
                  reason_output |-> IF h = <<>> THEN NoneRef ELSE 1,
                  policies |-> p, risk_flags |-> rf] :
                    h \in ReasonOutputHeaps, p \in PolicyChoices,
                    rf \in RiskFlagChoices}

CallGuardObjects ==
    /\ call.fn = "guard_objects"
    /\ ret = NotSet
    /\ ret' = guard_objects(call.heap, call.reason_output, call.policies,
                            call.risk_flags)
    /\ UNCHANGED <<call, pipeVars>>

SpecGuardObjects == InitGuardObjects /\ [][CallGuardObjects]_vars

\* the Python values at address a of heap h1 and at address b of h2 are equal
RECURSIVE SameValue(_, _, _, _)
SameValue(h1, a, h2, b) ==
    /\ h1[a].kind = h2[b].kind
    /\ CASE h1[a].kind = "scalar" -> h1[a].v = h2[b].v
         [] h1[a].kind = "list" ->
               /\ Len(h1[a].elems) = Len(h2[b].elems)
               /\ \A i \in DOMAIN h1[a].elems :
                      SameValue(h1, h1[a].elems[i], h2, h2[b].elems[i])
         [] h1[a].kind = "dict" ->
               /\ DOMAIN h1[a].items = DOMAIN h2[b].items
               /\ \A key \in DOMAIN h1[a].items :
                      SameValue(h1, h1[a].items[key], h2, h2[b].items[key])

\* the items of the dict the caller passed (none for None)
InputItems ==
    IF call.reason_output = NoneRef THEN EmptyDict
    ELSE call.heap[call.reason_output].items

\* C23: guard never mutates the reason_output object it is given, at any
\* nesting depth (every object that existed before the call is unchanged
\* after it, also when guard raises), and in the acute state every field of
\* safe_output other than content_plan and style_directives.tempo equals the
\* corresponding field of the input.
GuardNeverMutatesInput ==
    (call.fn = "guard_objects" /\ ret # NotSet) =>
        /\ \A a \in DOMAIN call.heap : ret.heap[a] = call.heap[a]
        /\ (ret.status = "ok" /\ ret.risk_status = "acute") =>
              LET out == ret.heap[ret.safe_output].items
                  style_in == IF HasKey(InputItems, "style_directives")
                              THEN call.heap[InputItems["style_directives"]].items
                              ELSE EmptyDict
                  style_out == ret.heap[out["style_directives"]].items
              IN  /\ ret.safe_output \notin DOMAIN call.heap
                  /\ DOMAIN out = DOMAIN InputItems
                                    \cup {"content_plan", "style_directives"}
                  /\ \A key \in DOMAIN InputItems
                                  \ {"content_plan", "style_directives"} :
                         SameValue(call.heap, InputItems[key],
                                   ret.heap, out[key])
                  /\ DOMAIN style_out = DOMAIN style_in \cup {"tempo"}
                  /\ \A key \in DOMAIN style_in \ {"tempo"} :
                         SameValue(call.heap, style_in[key],
                                   ret.heap, style_out[key])

\* guard has filtered the reasoner output of the test in the acute state:
\* the copy carries tempo calm and keeps length, the input keeps tempo fast
GuardNeverMutatesInputWitness ==
    /\ call.fn = "guard_objects"
    /\ ret # NotSet
    /\ call.heap = FullHeap
    /\ call.risk_flags # <<>>
    /\ ret.status = "ok"
    /\ LET style == ret.heap[ret.heap[ret.safe_output].items["style_directives"]]
       IN  /\ ret.heap[style.items["tempo"]].v = "calm"
           /\ ret.heap[style.items["length"]].v = "long"
    /\ ret.heap[ret.heap[8].items["tempo"]].v = "fast"

----------------------------------------------------------------------------
(* kb_embed.py: the batch backfill of embeddings, one statement group per   *)
(* step.  ret holds the locals of process_embeddings_for_case.              *)

MaxBatch == 2
MaxRuns == 2
\* stats["failed"] is kept up to this value; no statement reads it
MaxFailed == 3

\* ORDER BY kb_fragments.id
IdOrder == <<"f1", "f2", "f3", "f4", "f5", "f6">>

\* rows still to embed, and a row whose text embed_fragments_batch rejects
N1 == [F1 EXCEPT !.embedding = JNull]
N2 == [F2 EXCEPT !.embedding = JNull]
N3 == [F3 EXCEPT !.embedding = JNull]
N5 == [F5 EXCEPT !.embedding = JNull, !.text = ""]

\* the kb_fragments rows of the case before the first run
EmbedStores ==
    {{}, {F1, F2}, {F1, F4}, {N1, N2, N3}, {N1, F2, F4}, {F1, N5}, {N1, N2, N5}}

EmbedCaseIds == {"case", "other", "not-a-uuid"}

\* what model.encode can return for one text
EmbeddingVectors == {1, 2}
Dimension == 1024

ZeroStats == [processed |-> 0, failed |-> 0, skipped |-> 0, dimension |-> 0, batches |-> 0]

EmbedStart == [pc |-> "start", stats |-> ZeroStats, fragments |-> <<>>]

RowOf(kb, id) == CHOOSE f \in kb : f.id = id

\* a selection without the null-check
get_fragments_for_embedding_all(kb, limit) ==
    LET ids == SelectSeq(IdOrder, LAMBDA id : \E f \in kb : f.id = id)
    IN  IF limit # 0 /\ Len(ids) > limit THEN SubSeq(ids, 1, limit) ELSE ids

get_fragments_for_embedding(kb, limit) ==
    LET ids == SelectSeq(IdOrder,
                         LAMBDA id : \E f \in kb : /\ f.id = id
                                                   /\ f.embedding = JNull)
    IN  IF limit # 0 /\ Len(ids) > limit THEN SubSeq(ids, 1, limit) ELSE ids

\* embed_fragments_batch: ValueError on an empty text, RuntimeError when the
\* model fails, otherwise one vector per fragment
embed_fragments_batch(kb, fragments) ==
    IF \E i \in DOMAIN fragments : RowOf(kb, fragments[i]).text = ""
    THEN {[status |-> "raise", exc |-> "ValueError"]}
    ELSE {[status |-> "raise", exc |-> "RuntimeError"]}
            \cup {[status |-> "ok", embeddings |-> e] :
                    e \in [DOMAIN fragments -> EmbeddingVectors]}

\* update_fragments_embeddings: UPDATE ... WHERE id = fragment.id for every
\* pair, then commit; any failure rolls the transaction back
update_fragments_embeddings(kb, fragments, embeddings) ==
    {[status |-> "raise", exc |-> "KBEmbedError", kb |-> kb],
     [status |-> "ok", updated_count |-> Len(fragments),
      kb |-> {IF \E i \in DOMAIN fragments : fragments[i] = f.id
              THEN [f EXCEPT !.embedding =
                        JNum(embeddings[CHOOSE i \in DOMAIN fragments :
                                            fragments[i] = f.id])]
              ELSE f : f \in kb}]}

embedFrame == <<settings, cases, session_trajectories, telemetry_turns, pc, request, n, cands, r, g, patient_reply, response, trace, turns>>

InitEmbed ==
    /\ settings = DefaultSettings
    /\ cases = CaseA
    /\ kb_fragments \in EmbedStores
    /\ session_trajectories = EmptyDict
    /\ telemetry_turns = <<>>
    /\ TurnIdle
    /\ call \in {[fn |-> "process_embeddings_for_case", case_id |-> c,
                  batch_size |-> b, run |-> 1] :
                    c \in EmbedCaseIds, b \in 1..MaxBatch}
    /\ ret = EmbedStart

\* lines 120-139: the case id is parsed and the fragments of the case counted
CheckCase ==
    /\ call.fn = "process_embeddings_for_case"
    /\ ret.pc = "start"
    /\ LET total_fragments == IF call.case_id = "case"
                              THEN Cardinality(kb_fragments) ELSE 0
       IN  ret' = IF call.case_id = "not-a-uuid" \/ total_fragments = 0
                  THEN [ret EXCEPT !.pc = "raised"]
                  ELSE [ret EXCEPT !.pc = "select"]
    /\ UNCHANGED <<call, kb_fragments, embedFrame>>

\* lines 148-156: the next batch of rows without embedding, or the end
SelectBatch ==
    /\ call.fn = "process_embeddings_for_case"
    /\ ret.pc = "select"
    /\ \/ ret' = [ret EXCEPT !.pc = "raised"]
       \/ LET fragments == get_fragments_for_embedding(kb_fragments,
                                                       call.batch_size)
          IN  ret' = IF fragments = <<>>
                     THEN [ret EXCEPT !.pc = "returned", !.fragments = <<>>]
                     ELSE [ret EXCEPT !.pc = "batch", !.fragments = fragments]
    /\ UNCHANGED <<call, kb_fragments, embedFrame>>

\* stats after the except branch of lines 200-208
BatchFailed(stats, fragments) ==
    [stats EXCEPT !.failed = Min(stats.failed + Len(fragments), MaxFailed)]

\* lines 158-208: the batch is embedded and written, or counted as failed
ProcessBatch ==
    /\ call.fn = "process_embeddings_for_case"
    /\ ret.pc = "batch"
    /\ \E e \in embed_fragments_batch(kb_fragments, ret.fragments) :
          IF e.status = "raise"
          THEN /\ ret' = [ret EXCEPT !.pc = "select",
                               !.stats = BatchFailed(ret.stats, ret.fragments)]
               /\ UNCHANGED kb_fragments
          ELSE \E u \in update_fragments_embeddings(kb_fragments,
                                                    ret.fragments,
                                                    e.embeddings) :
                  /\ kb_fragments' = u.kb
                  /\ ret' = IF u.status = "raise"
                            THEN [ret EXCEPT !.pc = "select",
                                     !.stats = BatchFailed(ret.stats,
                                                           ret.fragments)]
                            ELSE [ret EXCEPT !.pc = "select",
                                     !.stats = [ret.stats EXCEPT
                                         !.dimension = Dimension,
                                         !.processed = @ + u.updated_count,
                                         !.batches = @ + 1]]
    /\ UNCHANGED <<call, embedFrame>>

\* the command is run again for the same case
RunAgain ==
    /\ call.fn = "process_embeddings_for_case"
    /\ ret.pc \in {"returned", "raised"}
    /\ call.run < MaxRuns
    /\ \E b \in 1..MaxBatch :
          call' = [call EXCEPT !.batch_size = b, !.run = @ + 1]
    /\ ret' = EmbedStart
    /\ UNCHANGED <<kb_fragments, embedFrame>>

EmbedStep == CheckCase \/ SelectBatch \/ ProcessBatch

NextEmbed == CheckCase \/ SelectBatch \/ ProcessBatch \/ RunAgain

SpecEmbed == InitEmbed /\ [][NextEmbed]_vars

\* the event loop runs the coroutine until it returns or raises
SpecEmbedFair == SpecEmbed /\ WF_vars(EmbedStep)

\* C24: re-running the backfill after a run that embedded all fragments of
\* the case changes no fragment: a row whose embedding is non-null is never
\* selected by get_fragments_for_embedding and never rewritten, in any run.
EmbeddedRowsUntouched ==
    [][/\ \A f \in kb_fragments : f.embedding # JNull => f \in kb_fragments'
       /\ (ret.pc = "select" /\ ret'.pc = "batch")
             => \A i \in DOMAIN ret'.fragments :
                    RowOf(kb_fragments, ret'.fragments[i]).embedding = JNull]_vars

\* the second run has returned without a batch over rows that the first run
\* embedded
EmbeddedRowsUntouchedWitness ==
    /\ call.fn = "process_embeddings_for_case"
    /\ call.run = 2
    /\ ret.pc = "returned"
    /\ ret.stats.batches = 0
    /\ {f.id : f \in kb_fragments} = {"f1", "f2", "f3"}
    /\ \A f \in kb_fragments : f.embedding # JNull /\ f \notin {F1, F2, F3}

\* C29: process_embeddings_for_case terminates for every case and every
\* positive batch size, also when computing the embeddings or writing the
\* batch fails every time: the batch loop exits after finitely many
\* iterations.
EmbedTerminates ==
    (call.fn = "process_embeddings_for_case" /\ ret.pc = "select")
        ~> (ret.pc \in {"returned", "raised"})

----------------------------------------------------------------------------
(* Two turns of one session processed at the same time.  Each request has   *)
(* its own AsyncSession (get_db) and the engine keeps the default isolation *)
(* level, READ COMMITTED: a SELECT sees the rows committed so far, and the  *)
(* writes of a transaction reach the tables at its commit.  Steps 1-6 of a  *)
(* turn write nothing; a worker starts at step 7.                           *)

Workers == {"a", "b"}

\* a trajectory with a step that needs no fragment and two that do
T5 ==
    [id |-> "t5", name |-> "stages",
     steps |-> <<[id |-> "intro", name |-> "intro",
                  condition_tags |-> <<>>, min_trust |-> 0],
                 [id |-> "sleep", name |-> "sleep",
                  condition_tags |-> <<"sleep">>, min_trust |-> 30],
                 [id |-> "mood", name |-> "mood",
                  condition_tags |-> <<"mood">>, min_trust |-> 50]>>]

CaseC ==
    [case_truth |-> [dx_target |-> <<"MDD">>,
                     trajectories |-> [t |-> "trajectories", v |-> <<T5>>]],
     policies |-> CasePolicies]

\* the session_trajectories rows of the session when the two turns arrive
ConcurrentTables ==
    {EmptyDict, [t5 |-> <<"intro">>], [t1 |-> <<"sleep">>, t2 |-> <<"open">>]}

\* used_fragments of a turn, as step 6 leaves them
ConcurrentUsed == {<<"f1">>, <<"f2">>}

WorkerStart ==
    [pc |-> "telemetry_select", turn_no |-> 0, i |-> 1, pending |-> EmptyDict,
     status |-> "running"]

concFrame == <<settings, cases, kb_fragments, pc, request, n, cands, r, g, patient_reply, response, trace, turns>>

InitConcurrent ==
    /\ settings = DefaultSettings
    /\ cases \in {CaseA, CaseC}
    /\ kb_fragments = CaseKB
    /\ session_trajectories \in ConcurrentTables
    /\ telemetry_turns = <<>>
    /\ TurnIdle
    /\ call \in [Workers -> [session_state_trust : PipelineTrust,
                             used_fragments : ConcurrentUsed]]
    /\ ret = [w \in Workers |-> WorkerStart]

\* pipeline.py lines 322-327: SELECT coalesce(max(turn_no), 0) + 1
TelemetrySelect(w) ==
    /\ ret[w].pc = "telemetry_select"
    /\ ret' = [ret EXCEPT ![w].pc = "telemetry_commit",
                          ![w].turn_no = NextTurnNo(telemetry_turns)]
    /\ UNCHANGED <<call, session_trajectories, telemetry_turns, concFrame>>

\* lines 329-352: the row is added and committed (telemetry_turns has no
\* constraint on (session_id, turn_no)), or the commit fails and the turn
\* ends in the fallback response
TelemetryCommit(w) ==
    /\ ret[w].pc = "telemetry_commit"
    /\ \/ /\ telemetry_turns' = Append(telemetry_turns,
                                       [turn_no |-> ret[w].turn_no,
                                        risk_status |-> "none"])
          /\ ret' = [ret EXCEPT ![w].pc = "trajectory_read"]
       \/ /\ ret' = [ret EXCEPT ![w].pc = "done", ![w].status = "fallback"]
          /\ UNCHANGED telemetry_turns
    /\ UNCHANGED <<call, session_trajectories, concFrame>>

\* lines 113-163, one pass of the loop: the row of the i-th trajectory is
\* read and the write it calls for is kept in the session until the commit
TrajectoryRead(w) ==
    /\ ret[w].pc = "trajectory_read"
    /\ LET trajectories == ParseCaseTruth(cases.case_truth).trajectories
           used_tags == UsedTags(kb_fragments, call[w].used_fragments)
           trajectory == trajectories[ret[w].i]
           found == HasKey(session_trajectories, trajectory.id)
           existing == DictGet(session_trajectories, trajectory.id, <<>>)
           new == new_completed_steps(trajectory, existing,
                                      call[w].session_state_trust, used_tags)
           pending == IF new = <<>> THEN ret[w].pending
                      ELSE DictSet(ret[w].pending, trajectory.id,
                              [op |-> IF found THEN "update" ELSE "insert",
                               completed_steps |->
                                   IF found
                                   THEN updated_completed_steps(existing, new)
                                   ELSE new,
                               new |-> new])
       IN  ret' = IF used_tags = {}
                  THEN [ret EXCEPT ![w].pc = "done", ![w].status = "skipped"]
                  ELSE [ret EXCEPT ![w].pending = pending,
                                   ![w].i = @ + 1,
                                   ![w].pc = IF ret[w].i = Len(trajectories)
                                             THEN "trajectory_commit"
                                             ELSE "trajectory_read"]
    /\ UNCHANGED <<call, session_trajectories, telemetry_turns, concFrame>>

\* line 165-170: db.commit() writes the pending rows.  An INSERT of a
\* (session_id, trajectory_id) that is stored by now violates the primary
\* key: the transaction is rolled back and the error swallowed.  An UPDATE
\* replaces completed_steps with the list computed from the row as read.
TrajectoryCommit(w) ==
    /\ ret[w].pc = "trajectory_commit"
    /\ LET pending == ret[w].pending
           conflict == \E tid \in DOMAIN pending :
                          /\ pending[tid].op = "insert"
                          /\ HasKey(session_trajectories, tid)
       IN  IF conflict
           THEN /\ ret' = [ret EXCEPT ![w].pc = "done", ![w].status = "failed"]
                /\ UNCHANGED session_trajectories
           ELSE /\ ret' = [ret EXCEPT ![w].pc = "done", ![w].status = "updated"]
                /\ session_trajectories' =
                      [tid \in DOMAIN session_trajectories \cup DOMAIN pending |->
                          IF tid \in DOMAIN pending
                          THEN pending[tid].completed_steps
                          ELSE session_trajectories[tid]]
    /\ UNCHANGED <<call, telemetry_turns, concFrame>>

NextConcurrent ==
    \E w \in Workers :
        \/ TelemetrySelect(w)
        \/ TelemetryCommit(w)
        \/ TrajectoryRead(w)
        \/ TrajectoryCommit(w)

SpecConcurrent == InitConcurrent /\ [][NextConcurrent]_vars

\* C27: when two turns of the same session are processed concurrently, the
\* telemetry records they append carry distinct turn_no values: at no time
\* do two telemetry records of the session share a turn_no.
DistinctTurnNumbers ==
    \A i, j \in DOMAIN telemetry_turns :
        i # j => telemetry_turns[i].turn_no # telemetry_turns[j].turn_no

\* both turns have reached the commit of their trajectory update
BothUpdatesFinished ==
    \A w \in Workers : ret[w].pc = "done" /\ ret[w].status \in {"updated", "failed"}

\* C26: when two turns of the same session are processed concurrently and
\* each one's trajectory update completes a different step of the same
\* trajectory, then after both updates have finished the stored
\* completed-steps list of that trajectory contains both steps.
NoCompletedStepLost ==
    BothUpdatesFinished =>
        \A tid \in DOMAIN ret["a"].pending \cap DOMAIN ret["b"].pending :
            LET new_a == SeqToSet(ret["a"].pending[tid].new)
                new_b == SeqToSet(ret["b"].pending[tid].new)
            IN  new_a \cap new_b = {}
                    => (new_a \cup new_b)
                          \subseteq SeqToSet(DictGet(session_trajectories, tid,
                                                     <<>>))

----------------------------------------------------------------------------
(* rate_limit.py: the token bucket of one key.  call holds the capacity and *)
(* the implementation in force (the Lua script, or the Python fallback      *)
(* taken when eval is refused); ret holds the clock, the Redis hash of the  *)
(* key and the requests in flight.  Tokens are counted in sixtieths, the    *)
(* refill of one second being capacity / 60.                                *)

MaxRequests == 3
MaxCapacity == 2
MaxClock == 1

RateRequests == 1..MaxRequests
TokenUnit == 60

\* capacity / 60.0 tokens per second, in sixtieths
per_min_to_refill(capacity) == capacity

RequestNew ==
    [pc |-> "new", current_time |-> 0, tokens |-> 0, result |-> "none",
     done_at |-> 0]

\* LUA_TOKEN_BUCKET, run by Redis as one command: the new hash and the reply
LuaTokenBucket(hash, capacity, refill, now) ==
    LET fresh == ~HasKey(hash, "tokens") \/ ~HasKey(hash, "ts")
        delta == IF fresh THEN 0 ELSE Max(0, now - hash.ts)
        tokens == IF fresh THEN capacity * TokenUnit
                  ELSE Min(capacity * TokenUnit, hash.tokens + delta * refill)
        allowed == tokens >= TokenUnit
    IN  [hash |-> [tokens |-> IF allowed THEN tokens - TokenUnit ELSE tokens,
                   ts |-> now],
         allowed |-> allowed]

\* _python_fallback lines 89-103: the tokens computed from the hash as read
FallbackTokens(hash, capacity, refill_rate, current_time) ==
    LET tokens == IF HasKey(hash, "tokens") THEN hash.tokens
                  ELSE capacity * TokenUnit
        last_refill == IF HasKey(hash, "tokens") /\ HasKey(hash, "ts")
                       THEN hash.ts ELSE current_time
        elapsed == current_time - last_refill
    IN  Min(capacity * TokenUnit, tokens + elapsed * refill_rate)

rateFrame == <<settings, cases, kb_fragments, session_trajectories, telemetry_turns, pc, request, n, cands, r, g, patient_reply, response, trace, turns>>

InitRateLimit ==
    /\ PipeInit
    /\ cases = CaseA
    /\ call \in [impl : {"lua", "python"}, capacity : 1..MaxCapacity]
    /\ ret = [clock |-> 0, redis |-> EmptyDict,
              req |-> [k \in RateRequests |-> RequestNew]]

\* time.time() moves to the next second
Tick ==
    /\ ret.clock < MaxClock
    /\ ret' = [ret EXCEPT !.clock = @ + 1]
    /\ UNCHANGED <<call, rateFrame>>

\* allow, lines 61-67 and 69-75: the time is read and the script sent; where
\* eval is refused the fallback is entered with the same time
Allow(k) ==
    /\ ret.req[k].pc = "new"
    /\ ret' = [ret EXCEPT !.req[k].current_time = ret.clock,
                          !.req[k].pc = IF call.impl = "lua" THEN "eval"
                                        ELSE "hmget"]
    /\ UNCHANGED <<call, rateFrame>>

\* lines 65-68: Redis runs the script
Eval(k) ==
    /\ ret.req[k].pc = "eval"
    /\ LET out == LuaTokenBucket(ret.redis, call.capacity,
                                 per_min_to_refill(call.capacity),
                                 ret.req[k].current_time)
       IN  ret' = [ret EXCEPT !.redis = out.hash,
                              !.req[k].pc = "done",
                              !.req[k].done_at = ret.clock,
                              !.req[k].result = IF out.allowed THEN "allowed"
                                                ELSE "denied"]
    /\ UNCHANGED <<call, rateFrame>>

\* _python_fallback lines 89-112: HMGET, the refill, and the decision
FallbackRead(k) ==
    /\ ret.req[k].pc = "hmget"
    /\ LET tokens == FallbackTokens(ret.redis, call.capacity,
                                    per_min_to_refill(call.capacity),
                                    ret.req[k].current_time)
       IN  ret' = IF tokens < TokenUnit
                  THEN [ret EXCEPT !.req[k].pc = "done",
                                   !.req[k].done_at = ret.clock,
                                   !.req[k].result = "denied"]
                  ELSE [ret EXCEPT !.req[k].pc = "hset",
                                   !.req[k].tokens = tokens - TokenUnit]
    /\ UNCHANGED <<call, rateFrame>>

\* _python_fallback lines 115-118: HSET of the tokens computed from the read
FallbackWrite(k) ==
    /\ ret.req[k].pc = "hset"
    /\ ret' = [ret EXCEPT !.redis = [tokens |-> ret.req[k].tokens,
                                     ts |-> ret.req[k].current_time],
                          !.req[k].pc = "done",
                          !.req[k].done_at = ret.clock,
                          !.req[k].result = "allowed"]
    /\ UNCHANGED <<call, rateFrame>>

NextRateLimit ==
    \/ Tick
    \/ \E k \in RateRequests :
          Allow(k) \/ Eval(k) \/ FallbackRead(k) \/ FallbackWrite(k)

SpecRateLimit == InitRateLimit /\ [][NextRateLimit]_vars

\* the requests allowed within the second in which the bucket was created
AllowedInFirstSecond ==
    {k \in RateRequests : /\ ret.req[k].result = "allowed"
                          /\ ret.req[k].done_at = 0}

\* C30: for a key with capacity N >= 1, among the requests (one after
\* another or concurrent) that reach a fresh bucket within the same clock
\* second at most N are allowed and the others are denied, under the Lua
\* script and under the Python fallback.
AtMostCapacityAllowed == Cardinality(AllowedInFirstSecond) <= call.capacity

====
